---- MODULE Spec2Model ----
(***************************************************************************)
(* The blinking-eyes animator of agent.py (class EyeAnimator) and the host *)
(* loop (main_loop) that shares the terminal and the output lock with it.  *)
(*                                                                         *)
(* Two threads: the animation thread runs EyeAnimator._run, the host       *)
(* thread runs the __main__ block and main_loop.  A location "aNNN" or     *)
(* "hNNN" is the thread standing before line NNN of src/agent.py.          *)
(*                                                                         *)
(* Openness levels are in hundredths (1.0 is 100).  Durations are in units *)
(* of 20 ms (0.04 s is 2, 0.12 s is 6, 1 s is 50).                         *)
(***************************************************************************)
EXTENDS Integers, Sequences, FiniteSets, TLC

\* ---------------------------------------------------------------- constants

EYES_REFRESH == 6
BLINK_STEP_SLEEP == 2
PAUSE_BASE == 4
PAUSE_JITTER_MAX == 6
JOIN_TIMEOUT == 50
OPEN_LEVEL == 66
HALF_LEVEL == 33
FULLY_OPEN == 100
InitialDelayMin == 25
InitialDelayMax == 125
IntervalMin == 100
IntervalMax == 275

\* Bounds of the model (not program constants).
MaxPending == 2     \* trigger_blink calls counted per unconsumed flag
MaxLevel == 100     \* SpecDraw hands draw the levels -MaxLevel .. 2 * MaxLevel
MaxOffBegins == 2   \* autonomous blinks counted per disabled period
MaxClock == 160     \* SpecTimed: no sleep begins after this time
MaxBlinks == 2      \* SpecTimed: returned calls of _do_blink counted

\* steps = [0.8, 0.5, 0.2, 0.0] of _do_blink
stepsOvershoot == <<80, 50, 20, -20>>
steps == <<80, 50, 20, 0>>

\* reversed(steps)
NotReversed(s) == s
Reversed(s) == [i \in 1..Len(s) |-> s[Len(s) + 1 - i]]

EYE_OPEN == [i \in 1..7 |-> <<"EYE_OPEN", i>>]
EYE_HALF == [i \in 1..7 |-> <<"EYE_HALF", i>>]
EYE_CLOSED == [i \in 1..7 |-> <<"EYE_CLOSED", i>>]
FACE_PADDING == "      "
SCREEN_CLEAR == "<ESC>[2J<ESC>[H"
PROMPT == ">>> "

\* EyeAnimator._draw: the art of the tier, two eyes side by side per line.
drawStrict(level) ==
    LET a == IF level > OPEN_LEVEL THEN EYE_OPEN
             ELSE IF level > HALF_LEVEL THEN EYE_HALF
             ELSE EYE_CLOSED
    IN  [i \in 1..Len(a) |-> <<FACE_PADDING, a[i], "   ", a[i]>>]
draw(level) ==
    LET a == IF level >= OPEN_LEVEL THEN EYE_OPEN
             ELSE IF level >= HALF_LEVEL THEN EYE_HALF
             ELSE EYE_CLOSED
    IN  [i \in 1..Len(a) |-> <<FACE_PADDING, a[i], "   ", a[i]>>]

\* The tier a frame shows (the name of the art its first line was built from).
TierOf(frame) == frame[1][2][1]

Min(a, b) == IF a < b THEN a ELSE b

\* The value of a time variable that holds no time yet.
NoTime == 0 - 1

\* ---------------------------------------------------------------- state

VARIABLES
    apc,            \* animation thread: location in _run / _do_blink
    bphase,         \* _do_blink: "closing", "opening", "final" or "none"
    bi,             \* _do_blink: index of the loop variable s in its list
    bkind,          \* which call of _do_blink is running: "auto", "forced", "none"
    art,            \* _run: the local art (<<>> outside the redraw)
    nowGE,          \* _run: the value of now >= last_auto_blink for the local now
    state,          \* EyeAnimator._state
    lock,           \* EyeAnimator._lock: "free", "anim" or "host"
    stopEv,         \* EyeAnimator._stop
    blinkEv,        \* EyeAnimator._blink
    autoEv,         \* EyeAnimator._auto
    due,            \* time.time() >= last_auto_blink holds at this moment
    joinElapsed,    \* time waited in _thread.join(timeout=1)
    hpc,            \* host thread: location in __main__ / main_loop / stop
    line,           \* main_loop: the local line
    res,            \* main_loop: the local res
    hostOut,        \* what the host has written in the with block it is inside
    \* history variables (record what happened; the program does not read them)
    interleaved,    \* a guarded write fell inside the other thread's open output unit
    unlockedWrite,  \* the host wrote outside a with-lock block while the thread lived
    owed,           \* trigger_blink calls that set the flag, minus forced blinks begun
    pendingCalls,   \* trigger_blink calls since the flag was last clear
    consumedCalls,  \* pendingCalls at the _blink.clear() before the blink under way
    unserved,       \* a trigger_blink call was made and no forced blink began since
    offAtCheck,     \* _auto was clear when line 173 chose the blink now under way
    offBegins,      \* autonomous blinks begun since _auto was last changed, while clear
    btrace,         \* _state at the last call of _do_blink in this iteration of _run,
                    \* then each value it assigned
    joinTimedOut,   \* join returned with the thread still alive
    endedBy,        \* how the while loop of main_loop was left ("none" inside it)
    stopDone,       \* animator.stop() has returned
    saved,          \* save_memory of line 375 was performed
    animRaised,     \* an exception ended the animation thread
    drawLevel,      \* SpecDraw: the level handed to draw
    drawArt,        \* SpecDraw: the frame draw returned (<<>> before the call)
    \* SpecTimed: _run with the durations of its sleeps
    tpc,            \* location in _run: "tNNN" is before line NNN ("t180r": line 180
                    \* has returned), "tdone" is after the loop
    clock,          \* time.time(), counted from the start of the thread
    deadline,       \* _run: last_auto_blink
    tnow,           \* _run: now
    blinksDone,     \* calls of _do_blink that have returned
    autoWasOff,     \* set_auto(False) was called
    lastAuto,       \* now of the iteration whose auto-blink branch ran last
    \* SpecMemory, SpecWake: the memory store
    memory,         \* the module-level dict memory (a function from keys to values)
    disk,           \* the file memory.json
    tmpFile,        \* the file memory.json.tmp
    mcmd,           \* the command dispatched last: its name and its argument
    reply,          \* what that command returned (or that it raised)
    told,           \* history: per typed key, the value of the last completed
                    \* remember of that key, or that a forget removed it since
    dirty,          \* history: memory was changed, or not loaded, without a save
    spc,            \* SpecWake: per thread, its location in save_memory
    \* SpecVoice: test.py
    wpc,            \* location in wakeword_loop / handle_command of test.py
    text,           \* wakeword_loop: text
    command,        \* wakeword_loop: command
    said,           \* the argument of the last call of speak
    heard           \* history: the last two calls of listen, their outcome and result

animLocals == <<apc, bphase, bi, bkind, art, nowGE>>
events == <<stopEv, blinkEv, autoEv>>
hostLocals == <<hpc, line, res, hostOut>>
outHist == <<interleaved, unlockedWrite>>
trigHist == <<owed, pendingCalls, consumedCalls, unserved>>
autoHist == <<offAtCheck, offBegins>>
drawVars == <<drawLevel, drawArt>>
hostHist == <<endedBy, stopDone, saved>>
timeVars == <<tpc, clock, deadline, tnow, blinksDone, autoWasOff, lastAuto>>
voiceVars == <<wpc, text, command, said, heard>>
memVars == <<memory, disk, tmpFile, mcmd, reply, told, dirty, spc, voiceVars>>

vars == <<animLocals, state, lock, events, due, joinElapsed, hostLocals,
          outHist, trigHist, autoHist, btrace, joinTimedOut, hostHist, animRaised,
          drawVars, timeVars, memVars>>

\* ---------------------------------------------------------------- helpers

\* threading.Lock.acquire (blocking) and release, as used by "with self._lock".
AcquireNoWait(t) == lock' = t
Acquire(t) == lock = "free" /\ lock' = t
Release == lock' = "free"

\* Locations between the first and the last write of one output unit.
AnimMidUnit == {"a185", "a186"}
HostMidUnit == {"h344", "h366", "h370n"}
\* Locations inside a with-lock block.
AnimRedraw == {"a183", "a184", "a185", "a186"}
HostGuarded == {"h343", "h344", "h365", "h366", "h370", "h370n"}
InBlink == apc \in {"b_acq", "b_set", "b_sleep", "b_pause"}

\* sys.stdout.write by the animation thread, inside its with-lock block.
AnimWrite ==
    /\ interleaved' = (interleaved \/ hpc \in HostMidUnit)
    /\ UNCHANGED unlockedWrite
\* sys.stdout.write / print by the host inside a with-lock block.
HostGuardedWrite ==
    /\ interleaved' = (interleaved \/ apc \in AnimMidUnit)
    /\ UNCHANGED unlockedWrite
\* print by the host outside any with-lock block.
HostUnguardedWrite ==
    /\ unlockedWrite' = (unlockedWrite \/ apc # "done")
    /\ UNCHANGED interleaved

\* time.sleep(d) in the animation thread: d units pass; a join in progress
\* has waited d units more.
Sleep(d) ==
    joinElapsed' = IF hpc = "h143" THEN Min(JOIN_TIMEOUT, joinElapsed + d)
                   ELSE joinElapsed

\* The animation thread is a daemon thread: it ends with the process.
ProcessAlive == hpc # "hdone"

\* ---------------------------------------------------------------- animation thread

\* What no step of the animation thread changes.
hostOwned == <<hostLocals, stopEv, autoEv, joinTimedOut, hostHist, drawVars, timeVars,
              memVars>>

\* _run, line 169: last_auto_blink = time.time() + random.uniform(0.5, 2.5).
\* The delay is positive, so the deadline lies in the future.
A169 ==
    /\ ProcessAlive /\ apc = "a169"
    /\ due' = FALSE
    /\ apc' = "a170"
    /\ UNCHANGED <<bphase, bi, bkind, art, nowGE, state, lock, blinkEv, joinElapsed,
                   outHist, trigHist, autoHist, btrace, animRaised, hostOwned>>

\* _run, line 170: while not self._stop.is_set().
A170IgnoreStop ==
    /\ ProcessAlive /\ apc = "a170"
    /\ apc' = "a171"
    /\ UNCHANGED <<bphase, bi, bkind, art, nowGE, state, lock, blinkEv, due, joinElapsed,
                   outHist, trigHist, autoHist, btrace, animRaised, hostOwned>>
A170 ==
    /\ ProcessAlive /\ apc = "a170"
    /\ apc' = IF stopEv THEN "done" ELSE "a171"
    /\ UNCHANGED <<bphase, bi, bkind, art, nowGE, state, lock, blinkEv, due, joinElapsed,
                   outHist, trigHist, autoHist, btrace, animRaised, hostOwned>>

\* _run, line 171: now = time.time().  Only now >= last_auto_blink is kept.
A171 ==
    /\ ProcessAlive /\ apc = "a171"
    /\ nowGE' = due
    /\ apc' = "a173"
    /\ UNCHANGED <<bphase, bi, bkind, art, state, lock, blinkEv, due, joinElapsed,
                   outHist, trigHist, autoHist, btrace, animRaised, hostOwned>>

\* _run, line 173: if self._auto.is_set() and now >= last_auto_blink.
A173IgnoreAuto ==
    /\ ProcessAlive /\ apc = "a173"
    /\ IF nowGE
         THEN apc' = "a175" /\ offAtCheck' = ~autoEv /\ UNCHANGED nowGE
         ELSE apc' = "a178" /\ offAtCheck' = FALSE /\ UNCHANGED nowGE
    /\ UNCHANGED <<bphase, bi, bkind, art, state, lock, blinkEv, due, joinElapsed,
                   outHist, trigHist, offBegins, btrace, animRaised, hostOwned>>
A173 ==
    /\ ProcessAlive /\ apc = "a173"
    /\ IF autoEv /\ nowGE
         THEN apc' = "a175" /\ offAtCheck' = ~autoEv /\ UNCHANGED nowGE
         ELSE apc' = "a178" /\ offAtCheck' = FALSE /\ UNCHANGED nowGE
    /\ UNCHANGED <<bphase, bi, bkind, art, state, lock, blinkEv, due, joinElapsed,
                   outHist, trigHist, offBegins, btrace, animRaised, hostOwned>>

\* The call self._do_blink(): control enters _do_blink at its first loop.
CallBlink(kind) ==
    /\ bkind' = kind
    /\ bphase' = "closing"
    /\ bi' = 1
    /\ apc' = "b_acq"
    /\ btrace' = <<state>>

\* _run, line 175: self._do_blink() of the auto-blink branch.
A175 ==
    /\ ProcessAlive /\ apc = "a175"
    /\ CallBlink("auto")
    /\ offBegins' = IF autoEv THEN offBegins ELSE Min(MaxOffBegins, offBegins + 1)
    /\ UNCHANGED <<art, nowGE, state, lock, blinkEv, due, joinElapsed,
                   outHist, trigHist, offAtCheck, animRaised, hostOwned>>

\* _do_blink, lines 194, 201, 204: with self._lock (blocking acquire).
BAcqNoLock ==
    /\ ProcessAlive /\ apc = "b_acq"
    /\ apc' = "b_set"
    /\ UNCHANGED <<bphase, bi, bkind, art, nowGE, state, lock, blinkEv, due, joinElapsed,
                   outHist, trigHist, autoHist, btrace, animRaised, hostOwned>>
BAcq ==
    /\ ProcessAlive /\ apc = "b_acq"
    /\ Acquire("anim")
    /\ apc' = "b_set"
    /\ UNCHANGED <<bphase, bi, bkind, art, nowGE, state, blinkEv, due, joinElapsed,
                   outHist, trigHist, autoHist, btrace, animRaised, hostOwned>>

\* The value s of the current iteration of _do_blink (1.0 for line 205).
BlinkLevelNoReset(phase, i) ==
    CASE phase = "closing" -> steps[i]
      [] phase = "opening" -> Reversed(steps)[i]
      [] OTHER -> Reversed(steps)[Len(steps)]
BlinkLevel(phase, i) ==
    CASE phase = "closing" -> steps[i]
      [] phase = "opening" -> Reversed(steps)[i]
      [] OTHER -> FULLY_OPEN

\* _do_blink, lines 195, 202, 205: self._state = s, then the with block ends
\* and releases the lock.  After line 205 _do_blink returns to its caller.
BSetClearsAfter ==
    /\ ProcessAlive /\ apc = "b_set"
    /\ state' = BlinkLevel(bphase, bi)
    /\ btrace' = Append(btrace, state')
    /\ Release
    /\ blinkEv' = IF bphase = "final" /\ bkind = "forced" THEN FALSE ELSE blinkEv
    /\ IF bphase = "final"
         THEN /\ apc' = IF bkind = "auto" THEN "a176" ELSE "a182"
              /\ bkind' = "none" /\ bphase' = "none" /\ bi' = 0
              /\ consumedCalls' = 0
         ELSE /\ apc' = "b_sleep"
              /\ UNCHANGED <<bkind, bphase, bi, consumedCalls>>
    /\ UNCHANGED <<art, nowGE, due, joinElapsed,
                   outHist, owed, pendingCalls, unserved, autoHist, animRaised, hostOwned>>
BSetKeepsLock ==
    /\ ProcessAlive /\ apc = "b_set"
    /\ state' = BlinkLevel(bphase, bi)
    /\ btrace' = Append(btrace, state')
    /\ lock' = IF bphase = "final" THEN "free" ELSE lock
    /\ IF bphase = "final"
         THEN /\ apc' = IF bkind = "auto" THEN "a176" ELSE "a182"
              /\ bkind' = "none" /\ bphase' = "none" /\ bi' = 0
              /\ consumedCalls' = 0
         ELSE /\ apc' = "b_sleep"
              /\ UNCHANGED <<bkind, bphase, bi, consumedCalls>>
    /\ UNCHANGED <<art, nowGE, blinkEv, due, joinElapsed,
                   outHist, owed, pendingCalls, unserved, autoHist, animRaised, hostOwned>>
BSet ==
    /\ ProcessAlive /\ apc = "b_set"
    /\ state' = BlinkLevel(bphase, bi)
    /\ btrace' = Append(btrace, state')
    /\ Release
    /\ IF bphase = "final"
         THEN /\ apc' = IF bkind = "auto" THEN "a176" ELSE "a182"
              /\ bkind' = "none" /\ bphase' = "none" /\ bi' = 0
              /\ consumedCalls' = 0
         ELSE /\ apc' = "b_sleep"
              /\ UNCHANGED <<bkind, bphase, bi, consumedCalls>>
    /\ UNCHANGED <<art, nowGE, blinkEv, due, joinElapsed,
                   outHist, owed, pendingCalls, unserved, autoHist, animRaised, hostOwned>>

\* _do_blink, lines 196 and 203: time.sleep(0.04), then the next iteration;
\* after the closing loop comes the pause, after the opening loop line 204.
BSleep ==
    /\ ProcessAlive /\ apc = "b_sleep"
    /\ Sleep(BLINK_STEP_SLEEP)
    /\ IF bi < Len(steps)
         THEN bi' = bi + 1 /\ apc' = "b_acq" /\ UNCHANGED bphase
         ELSE IF bphase = "closing"
                THEN apc' = "b_pause" /\ UNCHANGED <<bi, bphase>>
                ELSE apc' = "b_acq" /\ bphase' = "final" /\ bi' = 0
    /\ UNCHANGED <<bkind, art, nowGE, state, lock, blinkEv, due,
                   outHist, trigHist, autoHist, btrace, animRaised, hostOwned>>

\* _do_blink, line 198: time.sleep(0.08 + random.uniform(0.0, 0.12)).
BPause ==
    /\ ProcessAlive /\ apc = "b_pause"
    /\ \E jitter \in {0, PAUSE_JITTER_MAX} : Sleep(PAUSE_BASE + jitter)
    /\ bphase' = "opening" /\ bi' = 1
    /\ apc' = "b_acq"
    /\ UNCHANGED <<bkind, art, nowGE, state, lock, blinkEv, due,
                   outHist, trigHist, autoHist, btrace, animRaised, hostOwned>>

\* _run, line 176: last_auto_blink = now + random.uniform(2.0, 5.5).
A176 ==
    /\ ProcessAlive /\ apc = "a176"
    /\ due' = FALSE
    /\ UNCHANGED nowGE
    /\ offAtCheck' = FALSE
    /\ apc' = "a178"
    /\ UNCHANGED <<bphase, bi, bkind, art, state, lock, blinkEv, joinElapsed,
                   outHist, trigHist, offBegins, btrace, animRaised, hostOwned>>

\* _run, line 178: if self._blink.is_set().  The local now is not read again
\* in this iteration.
A178Elif ==
    /\ ProcessAlive /\ apc = "a178"
    /\ apc' = IF blinkEv /\ btrace = <<>> THEN "a179" ELSE "a182"
    /\ nowGE' = FALSE
    /\ UNCHANGED <<bphase, bi, bkind, art, state, lock, blinkEv, due, joinElapsed,
                   outHist, trigHist, autoHist, btrace, animRaised, hostOwned>>
A178TestsAuto ==
    /\ ProcessAlive /\ apc = "a178"
    /\ apc' = IF autoEv THEN "a179" ELSE "a182"
    /\ nowGE' = FALSE
    /\ UNCHANGED <<bphase, bi, bkind, art, state, lock, blinkEv, due, joinElapsed,
                   outHist, trigHist, autoHist, btrace, animRaised, hostOwned>>
A178 ==
    /\ ProcessAlive /\ apc = "a178"
    /\ apc' = IF blinkEv THEN "a179" ELSE "a182"
    /\ nowGE' = FALSE
    /\ UNCHANGED <<bphase, bi, bkind, art, state, lock, blinkEv, due, joinElapsed,
                   outHist, trigHist, autoHist, btrace, animRaised, hostOwned>>

\* _run, line 179: self._blink.clear().
A179NoClear ==
    /\ ProcessAlive /\ apc = "a179"
    /\ apc' = "a180"
    /\ UNCHANGED <<bphase, bi, bkind, art, nowGE, state, lock, blinkEv, due, joinElapsed,
                   outHist, trigHist, autoHist, btrace, animRaised, hostOwned>>
A179 ==
    /\ ProcessAlive /\ apc = "a179"
    /\ blinkEv' = FALSE
    /\ consumedCalls' = pendingCalls
    /\ pendingCalls' = 0
    /\ apc' = "a180"
    /\ UNCHANGED <<bphase, bi, bkind, art, nowGE, state, lock, due, joinElapsed,
                   outHist, owed, unserved, autoHist, btrace, animRaised, hostOwned>>

\* _run, line 180: self._do_blink() of the forced-blink branch.
A180 ==
    /\ ProcessAlive /\ apc = "a180"
    /\ CallBlink("forced")
    /\ owed' = owed - 1
    /\ unserved' = FALSE
    /\ UNCHANGED <<art, nowGE, state, lock, blinkEv, due, joinElapsed,
                   outHist, pendingCalls, consumedCalls, autoHist, animRaised, hostOwned>>

\* _run, line 182: with self._lock (blocking acquire).
A182 ==
    /\ ProcessAlive /\ apc = "a182"
    /\ Acquire("anim")
    /\ apc' = "a183"
    /\ UNCHANGED <<bphase, bi, bkind, art, nowGE, state, blinkEv, due, joinElapsed,
                   outHist, trigHist, autoHist, btrace, animRaised, hostOwned>>

\* _run, line 183: art = self._draw(self._state).
A183 ==
    /\ ProcessAlive /\ apc = "a183"
    /\ art' = draw(state)
    /\ apc' = "a184"
    /\ UNCHANGED <<bphase, bi, bkind, nowGE, state, lock, blinkEv, due, joinElapsed,
                   outHist, trigHist, autoHist, btrace, animRaised, hostOwned>>

\* _run, line 184: sys.stdout.write(SCREEN_CLEAR).
A184 ==
    /\ ProcessAlive /\ apc = "a184"
    /\ AnimWrite
    /\ apc' = "a185"
    /\ UNCHANGED <<bphase, bi, bkind, art, nowGE, state, lock, blinkEv, due, joinElapsed,
                   trigHist, autoHist, btrace, animRaised, hostOwned>>

\* _run, line 185: sys.stdout.write(art + "\n\n").
A185 ==
    /\ ProcessAlive /\ apc = "a185"
    /\ AnimWrite
    /\ apc' = "a186"
    /\ UNCHANGED <<bphase, bi, bkind, art, nowGE, state, lock, blinkEv, due, joinElapsed,
                   trigHist, autoHist, btrace, animRaised, hostOwned>>

\* _run, line 186: sys.stdout.flush(), then the with block ends and releases.
A186 ==
    /\ ProcessAlive /\ apc = "a186"
    /\ Release
    /\ art' = <<>>
    /\ apc' = "a187"
    /\ UNCHANGED <<bphase, bi, bkind, nowGE, state, blinkEv, due, joinElapsed,
                   outHist, trigHist, autoHist, btrace, animRaised, hostOwned>>

\* _run, line 187: time.sleep(EYES_REFRESH).
A187 ==
    /\ ProcessAlive /\ apc = "a187"
    /\ Sleep(EYES_REFRESH)
    /\ apc' = "a170"
    /\ btrace' = <<>>
    /\ UNCHANGED <<bphase, bi, bkind, art, nowGE, state, lock, blinkEv, due,
                   outHist, trigHist, autoHist, animRaised, hostOwned>>

\* Steps of the animation thread that wait for the lock, and those that do not.
AnimAcquire == BAcq \/ A182
AnimStep ==
    \/ A169 \/ A170 \/ A171 \/ A173 \/ A175 \/ A176 \/ A178 \/ A179 \/ A180
    \/ BAcq \/ BSet \/ BSleep \/ BPause
    \/ A182 \/ A183 \/ A184 \/ A185 \/ A186 \/ A187

\* ---------------------------------------------------------------- host thread

\* What no step of the host thread changes.
animOwned == <<animLocals, state, due, btrace, offAtCheck, consumedCalls, animRaised,
              drawVars, timeVars, memVars>>

\* What sys.stdin.readline() can deliver: end of input, a KeyboardInterrupt
\* raised while reading, or a line (given here without its newline).
EndOfInput == "<EOF>"
Interrupt == "<KeyboardInterrupt>"
Lines == {"", "blink", "blink_auto on", "blink_auto off", "clear", "hello", "exit",
          "say hi", "remember k = v"}

\* The values of res that are not text: None, and SystemExit or an Exception
\* raised instead.
None == "<None>"
SystemExit == "<SystemExit>"
Raised == "<Exception>"
\* main_loop, line 361: res = f"Error handling command: {e}".
ErrorText == "Error handling command: <e>"

\* handle_command, lines 284-286: cmd = parts[0].lower(), arg = parts[1] or "".
Cmd(l) ==
    CASE l \in {"blink_auto on", "blink_auto off"} -> "blink_auto"
      [] l = "say hi" -> "say"
      [] l = "remember k = v" -> "remember"
      [] OTHER -> l
Arg(l) ==
    CASE l = "blink_auto on" -> "on"
      [] l = "blink_auto off" -> "off"
      [] l = "say hi" -> "hi"
      [] l = "remember k = v" -> "k = v"
      [] OTHER -> ""

\* EyeAnimator.trigger_blink: self._blink.set().
TriggerBlink ==
    /\ blinkEv' = TRUE
    /\ owed' = IF blinkEv THEN owed ELSE owed + 1
    /\ pendingCalls' = Min(MaxPending, pendingCalls + 1)
    /\ unserved' = TRUE

\* EyeAnimator.set_auto: self._auto.set() or self._auto.clear().
SetAuto(enabled) ==
    /\ autoEv' = enabled
    /\ offBegins' = 0

\* handle_command: what it returns for a line (or that it raises SystemExit).
HandleCommandResult(l) ==
    CASE l = "" -> ""
      [] Cmd(l) = "say" -> "(spoken)"
      [] Cmd(l) = "remember" -> "Okay, remembered k = 'v'"
      [] Cmd(l) = "blink" -> "(blinked)"
      [] Cmd(l) = "blink_auto" /\ Arg(l) = "on" -> "Auto-blink: ON"
      [] Cmd(l) = "blink_auto" /\ Arg(l) = "off" -> "Auto-blink: OFF"
      [] Cmd(l) = "clear" -> None
      [] Cmd(l) = "exit" -> SystemExit
      [] OTHER -> "Hello! Type 'help' for commands."

\* handle_command: how a call for a line can end.  cmd_remember calls
\* save_memory, which writes a file and can raise (OSError).
HandleCommandOutcomes(l) ==
    IF Cmd(l) = "remember" THEN {HandleCommandResult(l), Raised}
    ELSE {HandleCommandResult(l)}

\* handle_command, lines 289-293: say calls speak, which prints its note
\* (line 93) when no text-to-speech is available.
HandleCommandPrints(l) ==
    IF Cmd(l) = "say"
      THEN \E noTTS \in BOOLEAN :
             IF noTTS THEN HostUnguardedWrite ELSE UNCHANGED outHist
      ELSE UNCHANGED outHist

\* handle_command: what it does to the animator for a line.
HandleCommandEffectOffBlinks(l) ==
    CASE Cmd(l) = "blink" ->
            TriggerBlink /\ UNCHANGED <<autoEv, offBegins>>
      [] Cmd(l) = "blink_auto" /\ Arg(l) = "on" ->
            SetAuto(TRUE) /\ UNCHANGED <<blinkEv, owed, pendingCalls, unserved>>
      [] Cmd(l) = "blink_auto" /\ Arg(l) = "off" ->
            SetAuto(FALSE) /\ TriggerBlink
      [] OTHER ->
            UNCHANGED <<blinkEv, autoEv, owed, pendingCalls, unserved, offBegins>>
HandleCommandEffect(l) ==
    CASE Cmd(l) = "blink" ->
            TriggerBlink /\ UNCHANGED <<autoEv, offBegins>>
      [] Cmd(l) = "blink_auto" /\ Arg(l) = "on" ->
            SetAuto(TRUE) /\ UNCHANGED <<blinkEv, owed, pendingCalls, unserved>>
      [] Cmd(l) = "blink_auto" /\ Arg(l) = "off" ->
            SetAuto(FALSE) /\ UNCHANGED <<blinkEv, owed, pendingCalls, unserved>>
      [] OTHER ->
            UNCHANGED <<blinkEv, autoEv, owed, pendingCalls, unserved, offBegins>>

\* __main__, lines 379-380: print(SCREEN_CLEAR); print(welcome).
H379 ==
    /\ hpc = "h379"
    /\ UNCHANGED hostOut
    /\ HostUnguardedWrite
    /\ hpc' = "h382"
    /\ UNCHANGED <<line, res, lock, events, joinElapsed, trigHist, offBegins,
                   joinTimedOut, hostHist, animOwned>>

\* __main__, line 382: speak("Hello! ..."), which prints its note when no
\* text-to-speech is available; then main_loop is entered.
H382 ==
    /\ hpc = "h382"
    /\ UNCHANGED hostOut
    /\ \E noTTS \in BOOLEAN :
         IF noTTS THEN HostUnguardedWrite ELSE UNCHANGED outHist
    /\ hpc' = "h342"
    /\ UNCHANGED <<line, res, lock, events, joinElapsed, trigHist, offBegins,
                   joinTimedOut, hostHist, animOwned>>

\* main_loop, line 342: with animator._lock (blocking acquire).
H342NoLock ==
    /\ hpc = "h342"
    /\ UNCHANGED hostOut
    /\ hpc' = "h343"
    /\ UNCHANGED <<line, res, lock, events, joinElapsed, outHist, trigHist, offBegins,
                   joinTimedOut, hostHist, animOwned>>
H342 ==
    /\ hpc = "h342"
    /\ UNCHANGED hostOut
    /\ Acquire("host")
    /\ hpc' = "h343"
    /\ UNCHANGED <<line, res, events, joinElapsed, outHist, trigHist, offBegins,
                   joinTimedOut, hostHist, animOwned>>

\* main_loop, line 343: sys.stdout.write(">>> ").
H343 ==
    /\ hpc = "h343"
    /\ hostOut' = <<PROMPT>>
    /\ HostGuardedWrite
    /\ hpc' = "h344"
    /\ UNCHANGED <<line, res, lock, events, joinElapsed, trigHist, offBegins,
                   joinTimedOut, hostHist, animOwned>>

\* main_loop, line 344: sys.stdout.flush(), then the with block releases.
H344KeepsLock ==
    /\ hpc = "h344"
    /\ hostOut' = <<>>
    /\ hpc' = "h347"
    /\ UNCHANGED <<line, res, lock, events, joinElapsed, outHist, trigHist, offBegins,
                   joinTimedOut, hostHist, animOwned>>
H344 ==
    /\ hpc = "h344"
    /\ hostOut' = <<>>
    /\ Release
    /\ hpc' = "h347"
    /\ UNCHANGED <<line, res, events, joinElapsed, outHist, trigHist, offBegins,
                   joinTimedOut, hostHist, animOwned>>

\* main_loop, lines 347-355: line = sys.stdin.readline(); end of input goes
\* to line 350, a KeyboardInterrupt to line 353, a line to handle_command.
H347 ==
    /\ hpc = "h347"
    /\ UNCHANGED hostOut
    /\ \E input \in Lines \cup {EndOfInput, Interrupt} :
         CASE input = EndOfInput -> hpc' = "h350" /\ UNCHANGED line
           [] input = Interrupt -> hpc' = "h353" /\ UNCHANGED line
           [] OTHER -> hpc' = "h357" /\ line' = input
    /\ UNCHANGED <<res, lock, events, joinElapsed, outHist, trigHist, offBegins,
                   joinTimedOut, hostHist, animOwned>>

\* main_loop, lines 350-351: print(); break (into the finally block).
H350 ==
    /\ hpc = "h350"
    /\ UNCHANGED hostOut
    /\ HostUnguardedWrite
    /\ hpc' = "h142"
    /\ endedBy' = "eof"
    /\ UNCHANGED <<line, res, lock, events, joinElapsed, trigHist, offBegins,
                   joinTimedOut, stopDone, saved, animOwned>>

\* main_loop, lines 353-354: print(); continue.
H353 ==
    /\ hpc = "h353"
    /\ UNCHANGED hostOut
    /\ HostUnguardedWrite
    /\ hpc' = "h342"
    /\ UNCHANGED <<line, res, lock, events, joinElapsed, trigHist, offBegins,
                   joinTimedOut, hostHist, animOwned>>

\* main_loop, lines 356-361: res = handle_command(line); SystemExit breaks
\* (into the finally block), any other Exception becomes the text of res.
H357NoCatch ==
    /\ hpc = "h357"
    /\ UNCHANGED hostOut
    /\ HandleCommandEffect(line)
    /\ HandleCommandPrints(line)
    /\ \E outcome \in HandleCommandOutcomes(line) :
         CASE outcome = SystemExit ->
                hpc' = "h142" /\ endedBy' = "exit" /\ UNCHANGED res
           [] outcome = Raised ->
                hpc' = "h142" /\ endedBy' = "exception" /\ UNCHANGED res
           [] OTHER ->
                hpc' = "h363" /\ res' = outcome /\ UNCHANGED endedBy
    /\ line' = ""
    /\ UNCHANGED <<lock, stopEv, joinElapsed, joinTimedOut, stopDone, saved, animOwned>>
H357 ==
    /\ hpc = "h357"
    /\ UNCHANGED hostOut
    /\ HandleCommandEffect(line)
    /\ HandleCommandPrints(line)
    /\ \E outcome \in HandleCommandOutcomes(line) :
         CASE outcome = SystemExit ->
                hpc' = "h142" /\ endedBy' = "exit" /\ UNCHANGED res
           [] outcome = Raised ->
                hpc' = "h363" /\ res' = ErrorText /\ UNCHANGED endedBy
           [] OTHER ->
                hpc' = "h363" /\ res' = outcome /\ UNCHANGED endedBy
    /\ line' = ""
    /\ UNCHANGED <<lock, stopEv, joinElapsed, joinTimedOut, stopDone, saved, animOwned>>

\* main_loop, lines 363 and 368: if res is None ... ; if res != "" ...
H363NoneAsText ==
    /\ hpc = "h363"
    /\ UNCHANGED hostOut
    /\ hpc' = IF res # "" THEN "h369" ELSE "h342"
    /\ UNCHANGED <<line, res, lock, events, joinElapsed, outHist, trigHist, offBegins,
                   joinTimedOut, hostHist, animOwned>>
H363 ==
    /\ hpc = "h363"
    /\ UNCHANGED hostOut
    /\ hpc' = IF res = None THEN "h364" ELSE IF res # "" THEN "h369" ELSE "h342"
    /\ UNCHANGED <<line, res, lock, events, joinElapsed, outHist, trigHist, offBegins,
                   joinTimedOut, hostHist, animOwned>>

\* main_loop, line 364: with animator._lock (blocking acquire).
H364 ==
    /\ hpc = "h364"
    /\ UNCHANGED hostOut
    /\ Acquire("host")
    /\ hpc' = "h365"
    /\ UNCHANGED <<line, res, events, joinElapsed, outHist, trigHist, offBegins,
                   joinTimedOut, hostHist, animOwned>>

\* main_loop, line 365: sys.stdout.write(SCREEN_CLEAR).
H365 ==
    /\ hpc = "h365"
    /\ hostOut' = <<SCREEN_CLEAR>>
    /\ HostGuardedWrite
    /\ hpc' = "h366"
    /\ UNCHANGED <<line, res, lock, events, joinElapsed, trigHist, offBegins,
                   joinTimedOut, hostHist, animOwned>>

\* main_loop, lines 366-367: sys.stdout.flush(), release, continue.
H366 ==
    /\ hpc = "h366"
    /\ hostOut' = <<>>
    /\ Release
    /\ hpc' = "h342"
    /\ res' = ""
    /\ UNCHANGED <<line, events, joinElapsed, outHist, trigHist, offBegins,
                   joinTimedOut, hostHist, animOwned>>

\* main_loop, line 369: with animator._lock (blocking acquire).
H369 ==
    /\ hpc = "h369"
    /\ UNCHANGED hostOut
    /\ Acquire("host")
    /\ hpc' = "h370"
    /\ UNCHANGED <<line, res, events, joinElapsed, outHist, trigHist, offBegins,
                   joinTimedOut, hostHist, animOwned>>

\* main_loop, line 370: print(res) writes res ...
H370 ==
    /\ hpc = "h370"
    /\ hostOut' = <<res>>
    /\ HostGuardedWrite
    /\ hpc' = "h370n"
    /\ UNCHANGED <<line, res, lock, events, joinElapsed, trigHist, offBegins,
                   joinTimedOut, hostHist, animOwned>>

\* ... and then the newline; the with block releases, the loop goes on.
H370n ==
    /\ hpc = "h370n"
    /\ hostOut' = <<>>
    /\ HostGuardedWrite
    /\ Release
    /\ hpc' = "h342"
    /\ res' = ""
    /\ UNCHANGED <<line, events, joinElapsed, trigHist, offBegins,
                   joinTimedOut, hostHist, animOwned>>

\* EyeAnimator.stop, line 142 (called at line 373): self._stop.set().
H142 ==
    /\ hpc = "h142"
    /\ UNCHANGED hostOut
    /\ stopEv' = TRUE
    /\ joinElapsed' = 0
    /\ hpc' = "h143"
    /\ UNCHANGED <<line, res, lock, blinkEv, autoEv, outHist, trigHist, offBegins,
                   joinTimedOut, hostHist, animOwned>>

\* EyeAnimator.stop, line 143: self._thread.join(timeout=1) returns because
\* the thread has ended ...
H143NoWait ==
    /\ hpc = "h143"
    /\ UNCHANGED hostOut
    /\ joinTimedOut' = FALSE
    /\ stopDone' = TRUE
    /\ hpc' = "h374"
    /\ UNCHANGED <<line, res, lock, events, joinElapsed, outHist, trigHist, offBegins,
                   endedBy, saved, animOwned>>
H143Return ==
    /\ hpc = "h143"
    /\ UNCHANGED hostOut
    /\ apc = "done"
    /\ joinTimedOut' = FALSE
    /\ stopDone' = TRUE
    /\ hpc' = "h374"
    /\ UNCHANGED <<line, res, lock, events, joinElapsed, outHist, trigHist, offBegins,
                   endedBy, saved, animOwned>>

\* ... or because the timeout has passed with the thread still alive.
H143NoTimeout ==
    /\ FALSE
    /\ UNCHANGED vars
H143Timeout ==
    /\ hpc = "h143"
    /\ UNCHANGED hostOut
    /\ apc # "done"
    /\ joinElapsed >= JOIN_TIMEOUT
    /\ joinTimedOut' = TRUE
    /\ stopDone' = TRUE
    /\ hpc' = "h374"
    /\ UNCHANGED <<line, res, lock, events, joinElapsed, outHist, trigHist, offBegins,
                   endedBy, saved, animOwned>>

\* main_loop, line 374: print("\nGoodbye ...").
H374 ==
    /\ hpc = "h374"
    /\ UNCHANGED hostOut
    /\ HostUnguardedWrite
    /\ hpc' = "h375"
    /\ UNCHANGED <<line, res, lock, events, joinElapsed, trigHist, offBegins,
                   joinTimedOut, hostHist, animOwned>>

\* main_loop, line 375: save_memory(memory); main_loop returns and the
\* process ends.
H375 ==
    /\ hpc = "h375"
    /\ UNCHANGED hostOut
    /\ saved' = TRUE
    /\ hpc' = "hdone"
    /\ UNCHANGED <<line, res, lock, events, joinElapsed, outHist, trigHist, offBegins,
                   joinTimedOut, endedBy, stopDone, animOwned>>

\* Steps of the host inside a with-lock block, and the steps of stop().
HostLockedStep == H343 \/ H344 \/ H365 \/ H366 \/ H370 \/ H370n
StopStep == H142 \/ H143Return \/ H143Timeout
HostStep ==
    \/ H379 \/ H382 \/ H342 \/ H343 \/ H344 \/ H347 \/ H350 \/ H353 \/ H357 \/ H363
    \/ H364 \/ H365 \/ H366 \/ H369 \/ H370 \/ H370n
    \/ H142 \/ H143Return \/ H143Timeout \/ H374 \/ H375

\* ---------------------------------------------------------------- grokagent.py

\* main_loop of grokagent.py is main_loop of agent.py line for line (lines
\* 365-399 for lines 337-375) but for the with block of the response, which
\* also speaks it (lines 392-395; claudeagent.py does the same at lines
\* 388-390).  A location "gNNN" is the host before line NNN of grokagent.py.

\* grokagent.py, line 394: "Voice input:" in res (the text cmd_voice returns
\* for an utterance; none of Lines is the command voice).
IsVoiceEcho(r) == r = "Voice input: <text> (processing as command...)"

\* grokagent.py, lines 393-394: print(res) writes the newline; then
\* if "Voice input:" not in res, inside the with block.
G393n ==
    /\ hpc = "h370n"
    /\ HostGuardedWrite
    /\ IF IsVoiceEcho(res)
         THEN Release /\ hpc' = "h342" /\ res' = "" /\ hostOut' = <<>>
         ELSE hpc' = "g395" /\ UNCHANGED <<lock, res, hostOut>>
    /\ UNCHANGED <<line, events, joinElapsed, trigHist, offBegins,
                   joinTimedOut, hostHist, animOwned>>

\* grokagent.py, line 395: speak(res) returns (it runs termux-tts-speak to
\* its end, or prints its note when no text-to-speech is available); then
\* the with block ends and releases.
G395 ==
    /\ hpc = "g395"
    /\ \E noTTS \in BOOLEAN :
         IF noTTS THEN HostGuardedWrite ELSE UNCHANGED outHist
    /\ Release
    /\ hpc' = "h342"
    /\ res' = ""
    /\ hostOut' = <<>>
    /\ UNCHANGED <<line, events, joinElapsed, trigHist, offBegins,
                   joinTimedOut, hostHist, animOwned>>

GrokHostStep ==
    \/ H379 \/ H382 \/ H342 \/ H343 \/ H344 \/ H347 \/ H350 \/ H353 \/ H357 \/ H363
    \/ H364 \/ H365 \/ H366 \/ H369 \/ H370 \/ G393n \/ G395
    \/ H142 \/ H143Return \/ H143Timeout \/ H374 \/ H375

\* ---------------------------------------------------------------- time

\* The clock reaches last_auto_blink.
DeadlinePasses ==
    /\ ProcessAlive
    /\ apc # "a169"
    /\ ~due
    /\ due' = TRUE
    /\ UNCHANGED <<animLocals, state, lock, events, joinElapsed, hostLocals,
                   outHist, trigHist, autoHist, btrace, joinTimedOut, hostHist, animRaised,
                   drawVars, timeVars, memVars>>

\* The rest of the timeout passes while the host waits in join and the
\* animation thread does not run (it is not scheduled, or it is blocked).
TimePasses ==
    /\ hpc = "h143"
    /\ joinElapsed < JOIN_TIMEOUT
    /\ joinElapsed' = JOIN_TIMEOUT
    /\ UNCHANGED <<animLocals, state, lock, events, due, hostLocals,
                   outHist, trigHist, autoHist, btrace, joinTimedOut, hostHist, animRaised,
                   drawVars, timeVars, memVars>>

\* ---------------------------------------------------------------- _run with time

\* SpecTimed: the animation thread with the durations of its sleeps, driven
\* through the public operations of EyeAnimator.  The statements between
\* sleeps take no time and the lock is free whenever the thread asks for it.

\* random.uniform(0.5, 2.5) of line 169; random.uniform(2.0, 5.5) of line 176
\* and random.uniform(0.0, 0.12) of line 198 (their two ends).
InitialDelaysLate == InitialDelayMin..(InitialDelayMax + IntervalMin)
InitialDelays == InitialDelayMin..InitialDelayMax
Intervals == {IntervalMin, IntervalMax}
PauseJitters == {0, PAUSE_JITTER_MAX}

\* The time one call of _do_blink takes: the sleeps of the closing loop, the
\* closed pause, the sleeps of the opening loop.
BlinkDuration(jitter) ==
    Len(steps) * BLINK_STEP_SLEEP + PAUSE_BASE + jitter + Len(steps) * BLINK_STEP_SLEEP

\* What no step of SpecTimed changes.
untimedVars == <<animLocals, state, lock, due, joinElapsed, hostLocals, outHist,
                 consumedCalls, offAtCheck, btrace, joinTimedOut, hostHist, animRaised,
                 drawVars, memVars>>

\* _run, line 169.
T169 ==
    /\ tpc = "t169"
    /\ \E delay \in InitialDelays : deadline' = clock + delay
    /\ tpc' = "t170"
    /\ UNCHANGED <<clock, tnow, blinksDone, autoWasOff, lastAuto, events, owed, pendingCalls,
                   unserved, offBegins, untimedVars>>

\* _run, lines 170-173: the loop test, now = time.time(), the auto-blink test.
T170SkipsAhead ==
    /\ tpc = "t170"
    /\ IF stopEv
         THEN tpc' = "tdone" /\ UNCHANGED <<tnow, deadline>>
         ELSE /\ tnow' = clock
              /\ tpc' = IF autoEv /\ clock >= deadline THEN "t175" ELSE "t178"
              /\ deadline' = IF ~autoEv /\ clock >= deadline THEN clock + IntervalMin
                              ELSE deadline
    /\ UNCHANGED <<clock, blinksDone, autoWasOff, lastAuto, events, owed, pendingCalls,
                   unserved, offBegins, untimedVars>>
T170 ==
    /\ tpc = "t170"
    /\ IF stopEv
         THEN tpc' = "tdone" /\ UNCHANGED tnow
         ELSE /\ tnow' = clock
              /\ tpc' = IF autoEv /\ clock >= deadline THEN "t175" ELSE "t178"
    /\ UNCHANGED <<clock, deadline, blinksDone, autoWasOff, lastAuto, events, owed, pendingCalls,
                   unserved, offBegins, untimedVars>>

\* _run, line 175: self._do_blink() of the auto-blink branch.
T175 ==
    /\ tpc = "t175"
    /\ clock <= MaxClock
    /\ \E jitter \in PauseJitters : clock' = clock + BlinkDuration(jitter)
    /\ blinksDone' = Min(MaxBlinks, blinksDone + 1)
    /\ lastAuto' = tnow
    /\ tpc' = "t176"
    /\ UNCHANGED <<deadline, tnow, autoWasOff, events, owed, pendingCalls,
                   unserved, offBegins, untimedVars>>

\* _run, line 176: last_auto_blink = now + random.uniform(2.0, 5.5).
T176FromBlinkEnd ==
    /\ tpc = "t176"
    /\ \E interval \in Intervals : deadline' = clock + interval
    /\ tpc' = "t178"
    /\ UNCHANGED <<clock, tnow, blinksDone, autoWasOff, lastAuto, events, owed, pendingCalls,
                   unserved, offBegins, untimedVars>>
T176 ==
    /\ tpc = "t176"
    /\ \E interval \in Intervals : deadline' = tnow + interval
    /\ tpc' = "t178"
    /\ UNCHANGED <<clock, tnow, blinksDone, autoWasOff, lastAuto, events, owed, pendingCalls,
                   unserved, offBegins, untimedVars>>

\* _run, lines 178-179: if self._blink.is_set(): self._blink.clear().
T178 ==
    /\ tpc = "t178"
    /\ IF blinkEv
         THEN /\ blinkEv' = FALSE /\ pendingCalls' = 0
              /\ tpc' = "t180"
         ELSE /\ UNCHANGED <<blinkEv, pendingCalls>>
              /\ tpc' = "t182"
    /\ UNCHANGED <<clock, deadline, tnow, blinksDone, autoWasOff, lastAuto, stopEv, autoEv, owed,
                   unserved, offBegins, untimedVars>>

\* _run, line 180: self._do_blink() of the forced-blink branch.
T180SetsDeadline ==
    /\ tpc = "t180"
    /\ clock <= MaxClock
    /\ \E jitter \in PauseJitters : clock' = clock + BlinkDuration(jitter)
    /\ \E interval \in Intervals : deadline' = tnow + interval
    /\ blinksDone' = Min(MaxBlinks, blinksDone + 1)
    /\ owed' = owed - 1 /\ unserved' = FALSE
    /\ tpc' = "t180r"
    /\ UNCHANGED <<tnow, autoWasOff, lastAuto, events, pendingCalls, offBegins, untimedVars>>
T180 ==
    /\ tpc = "t180"
    /\ clock <= MaxClock
    /\ \E jitter \in PauseJitters : clock' = clock + BlinkDuration(jitter)
    /\ blinksDone' = Min(MaxBlinks, blinksDone + 1)
    /\ owed' = owed - 1 /\ unserved' = FALSE
    /\ tpc' = "t180r"
    /\ UNCHANGED <<deadline, tnow, autoWasOff, lastAuto, events, pendingCalls, offBegins,
                   untimedVars>>

\* _run, lines 182-187: the redraw, then time.sleep(EYES_REFRESH).
T182 ==
    /\ tpc \in {"t182", "t180r"}
    /\ clock <= MaxClock
    /\ clock' = clock + EYES_REFRESH
    /\ tpc' = "t170"
    /\ UNCHANGED <<deadline, tnow, blinksDone, autoWasOff, lastAuto, events, owed, pendingCalls,
                   unserved, offBegins, untimedVars>>

\* Another thread calls trigger_blink() (while the flag is clear: a call
\* while it is set changes nothing of the thread), set_auto(enabled) or
\* stop() (its line 142; the join changes nothing of the thread).
CallTriggerBlink ==
    /\ tpc # "tdone"
    /\ ~blinkEv
    /\ TriggerBlink
    /\ UNCHANGED <<timeVars, stopEv, autoEv, offBegins, untimedVars>>
CallSetAuto ==
    /\ tpc # "tdone"
    /\ \E enabled \in BOOLEAN :
         /\ SetAuto(enabled)
         /\ autoWasOff' = (autoWasOff \/ ~enabled)
    /\ UNCHANGED <<tpc, clock, deadline, tnow, blinksDone, lastAuto, stopEv, blinkEv, owed,
                   pendingCalls, unserved, untimedVars>>
CallStop ==
    /\ tpc # "tdone"
    /\ ~stopEv
    /\ stopEv' = TRUE
    /\ UNCHANGED <<timeVars, blinkEv, autoEv, owed, pendingCalls, unserved, offBegins,
                   untimedVars>>

TimedStep == T169 \/ T170 \/ T175 \/ T176 \/ T178 \/ T180 \/ T182

\* ---------------------------------------------------------------- exceptions

\* A with-lock block left by an exception: the lock is released on the way out.
HeldOnRaise == UNCHANGED lock
ReleaseOnRaise == lock' = "free"

\* A write or the flush of lines 184-186 raises (OSError on a closed or
\* broken terminal): the with block releases, the exception leaves _run and
\* the thread ends.
AnimWriteRaises ==
    /\ ProcessAlive /\ apc \in {"a184", "a185", "a186"}
    /\ ReleaseOnRaise
    /\ apc' = "done" /\ art' = <<>>
    /\ animRaised' = TRUE
    /\ UNCHANGED <<bphase, bi, bkind, nowGE, state, blinkEv, due, joinElapsed,
                   outHist, trigHist, autoHist, btrace, hostOwned>>

\* A write or flush inside a with block of main_loop raises, or Ctrl+C
\* arrives there: the with block releases and the exception leaves the
\* while loop into the finally block.
HostGuardedRaises ==
    /\ hpc \in HostGuarded
    /\ hostOut' = <<>>
    /\ ReleaseOnRaise
    /\ hpc' = "h142"
    /\ endedBy' = "exception"
    /\ UNCHANGED <<line, res, events, joinElapsed, outHist, trigHist, offBegins,
                   joinTimedOut, stopDone, saved, animOwned>>

\* KeyboardInterrupt outside the try of lines 346-354 (while main_loop waits
\* for the lock or runs handle_command): no handler of main_loop catches
\* it, and it leaves the while loop into the finally block.
HostInterruptedNoFinally ==
    /\ hpc \in {"h342", "h357", "h363", "h364", "h369"}
    /\ UNCHANGED hostOut
    /\ hpc' = "hdone"
    /\ endedBy' = "exception"
    /\ UNCHANGED <<line, res, lock, events, joinElapsed, outHist, trigHist, offBegins,
                   joinTimedOut, stopDone, saved, animOwned>>
HostInterrupted ==
    /\ hpc \in {"h342", "h357", "h363", "h364", "h369"}
    /\ UNCHANGED hostOut
    /\ hpc' = "h142"
    /\ endedBy' = "exception"
    /\ UNCHANGED <<line, res, lock, events, joinElapsed, outHist, trigHist, offBegins,
                   joinTimedOut, stopDone, saved, animOwned>>

\* ---------------------------------------------------------------- memory store

\* SpecMemory: the commands remember, recall, list and forget of agent.py,
\* dispatched one after the other, with the dict memory and the file
\* memory.json.  Text is a sequence of characters.

\* What the user types for <key> and <value>, and the argument "k = v".
TypedKeys == {<<>>, <<"k">>, <<"k", "=", "j">>}
TypedVals == {<<"v">>, <<"w", "=", "v">>}
RememberForm(k, v) == k \o <<" ", "=", " ">> \o v
\* The arguments given to remember (two of them without "="), recall, forget.
RememberArgs == {RememberForm(k, v) : k \in TypedKeys, v \in TypedVals} \cup {<<>>, <<"k">>}
KeyArgs == TypedKeys

\* str.strip(): the text without its leading and trailing blanks.
Strip(s) ==
    LET inked == {i \in 1..Len(s) : s[i] # " "}
    IN  IF inked = {} THEN <<>>
        ELSE SubSeq(s, CHOOSE i \in inked : \A j \in inked : i <= j,
                       CHOOSE i \in inked : \A j \in inked : i >= j)

\* "=" in arg, and arg.split("=", 1): the text before and after the first "=".
HasEq(s) == \E i \in 1..Len(s) : s[i] = "="
FirstEq(s) == CHOOSE i \in 1..Len(s) : s[i] = "=" /\ \A j \in 1..(i - 1) : s[j] # "="
BeforeEq(s) == SubSeq(s, 1, FirstEq(s) - 1)
AfterEq(s) == SubSeq(s, FirstEq(s) + 1, Len(s))

\* A dict: a function from the keys it holds.  memory[key] = val; memory.pop(key).
EmptyMap == [k \in {} |-> <<>>]
Store(m, key, val) == [k \in DOMAIN m \cup {key} |-> IF k = key THEN val ELSE m[k]]
Pop(m, key) == [k \in DOMAIN m \ {key} |-> m[k]]

\* A file: absent, the JSON text of a mapping, text that is no JSON ("corrupt"),
\* or a file opened for writing with nothing written yet ("truncated").
File(kind, m) == [kind |-> kind, map |-> m]
NoFile == File("absent", EmptyMap)
Corrupt == File("corrupt", EmptyMap)
Truncated == File("truncated", EmptyMap)
Json(m) == File("json", m)

\* load_memory: {} when the file is absent or cannot be read as JSON.
load_memory(file) == IF file.kind = "json" THEN file.map ELSE EmptyMap

\* What a command returns: its text, with the key and the value it names.
Reply(txt, key, val) == [text |-> txt, key |-> key, val |-> val]
NoReply == Reply("", <<>>, <<>>)
RaisedReply == Reply(Raised, <<>>, <<>>)
UseRemember == "Use: remember key = value"
UseRecall == "Use: recall key"
UseForget == "Use: forget key"
Remembered == "Okay, remembered <key> = <val!r>"
Found == "<key> = <val!r>"
NotInMemory == "I don't have <key!r> in memory."
Forgot == "Forgot <key> (was <val!r>)"
NoMemoryFor == "No memory for <key!r>"
MemoryIsEmpty == "Memory is empty."
Listing == "<k> = <v!r> ..."

\* History values of told: nothing known of the key; a forget removed it.
Nothing == <<"<nothing>">>
Forgotten == <<"<forgotten>">>

\* What no command of the memory store changes.
storeRest == <<animLocals, state, lock, events, due, joinElapsed, hostLocals,
               outHist, trigHist, autoHist, btrace, joinTimedOut, hostHist, animRaised,
               drawVars, timeVars, spc, voiceVars>>

\* save_memory(mem), lines 50-54: the dump goes to memory.json.tmp, which
\* then replaces memory.json; or open raises (nothing written), or the dump
\* raises (a part written).
SaveOutcomes == {"saved", "open raises", "dump raises"}
save_memory(mem, outcome) ==
    CASE outcome = "saved" -> disk' = Json(mem) /\ tmpFile' = NoFile
      [] outcome = "open raises" -> UNCHANGED <<disk, tmpFile>>
      [] OTHER -> tmpFile' = Truncated /\ UNCHANGED disk

\* cmd_remember, lines 236-245.
cmd_remember(arg) ==
    IF ~HasEq(arg)
      THEN /\ reply' = Reply(UseRemember, <<>>, <<>>)
           /\ UNCHANGED <<memory, disk, tmpFile, dirty>>
      ELSE LET key == Strip(BeforeEq(arg))
               val == Strip(AfterEq(arg))
           IN  /\ memory' = Store(memory, key, val)
               /\ \E outcome \in SaveOutcomes :
                    /\ save_memory(memory', outcome)
                    /\ dirty' = (outcome # "saved")
                    /\ reply' = IF outcome = "saved" THEN Reply(Remembered, key, val)
                                ELSE RaisedReply

\* cmd_recall, lines 247-253.
cmd_recall(arg) ==
    LET key == Strip(arg)
    IN  /\ reply' = IF key = <<>> THEN Reply(UseRecall, <<>>, <<>>)
                    ELSE IF key \in DOMAIN memory THEN Reply(Found, key, memory[key])
                    ELSE Reply(NotInMemory, key, <<>>)
        /\ UNCHANGED <<memory, disk, tmpFile, dirty>>

\* cmd_list, lines 255-258.
cmd_list ==
    /\ reply' = IF DOMAIN memory = {} THEN Reply(MemoryIsEmpty, <<>>, <<>>)
                ELSE Reply(Listing, <<>>, <<>>)
    /\ UNCHANGED <<memory, disk, tmpFile, dirty>>

\* cmd_forget, lines 260-268.
cmd_forget(arg) ==
    LET key == Strip(arg)
    IN  IF key = <<>>
          THEN /\ reply' = Reply(UseForget, <<>>, <<>>)
               /\ UNCHANGED <<memory, disk, tmpFile, dirty>>
          ELSE IF key \in DOMAIN memory
            THEN /\ memory' = Pop(memory, key)
                 /\ \E outcome \in SaveOutcomes :
                      /\ save_memory(memory', outcome)
                      /\ dirty' = (outcome # "saved")
                      /\ reply' = IF outcome = "saved" THEN Reply(Forgot, key, memory[key])
                                  ELSE RaisedReply
            ELSE /\ reply' = Reply(NoMemoryFor, key, <<>>)
                 /\ UNCHANGED <<memory, disk, tmpFile, dirty>>

\* handle_command, lines 294-301, for one typed command; told is brought up
\* to date with what the user was told by the reply.
DoRemember ==
    /\ \E arg \in RememberArgs :
         /\ mcmd' = [cmd |-> "remember", arg |-> arg]
         /\ cmd_remember(arg)
         /\ told' = [k \in TypedKeys |->
                       IF \E v \in TypedVals : arg = RememberForm(k, v)
                         THEN IF reply'.text = Remembered
                                THEN CHOOSE v \in TypedVals : arg = RememberForm(k, v)
                                ELSE Nothing
                         ELSE told[k]]
    /\ UNCHANGED storeRest
DoRecall ==
    /\ \E arg \in KeyArgs :
         /\ mcmd' = [cmd |-> "recall", arg |-> arg]
         /\ cmd_recall(arg)
    /\ UNCHANGED <<told, storeRest>>
DoList ==
    /\ mcmd' = [cmd |-> "list", arg |-> <<>>]
    /\ cmd_list
    /\ UNCHANGED <<told, storeRest>>
DoForget ==
    /\ \E arg \in KeyArgs :
         /\ mcmd' = [cmd |-> "forget", arg |-> arg]
         /\ cmd_forget(arg)
         /\ told' = [k \in TypedKeys |->
                       IF k # arg THEN told[k]
                       ELSE IF reply'.text = Forgot THEN Forgotten
                       ELSE IF reply'.text = Raised THEN Nothing
                       ELSE told[k]]
    /\ UNCHANGED storeRest

\* The files memory.json that load_memory (line 56) can find at start.
InitialFiles == {NoFile, Corrupt, Json(EmptyMap), Json(Store(EmptyMap, <<"k">>, <<"v">>))}

\* ---------------------------------------------------------------- claudeagent.py

\* SpecWake: save_memory of claudeagent.py (lines 48-52, the same text as in
\* agent.py) called by two threads: the main thread (main_loop) and the
\* thread the command wakeword starts (wakeword_loop), both of which
\* dispatch commands through handle_command.  spc[t] is "off" (the thread
\* does not exist), "idle" (between commands) or "sNN": before line NN of
\* claudeagent.py.  At "s51" the file the thread has opened is
\* memory.json.tmp; at "s51d" it has become memory.json (the other thread
\* renamed it); at "s51x" it has no name any more.
Threads == {"main", "wake"}
Other(t) == IF t = "main" THEN "wake" ELSE "main"
InSave == {"s51", "s51d", "s51x", "s52"}

\* What the threads remember: the key k with one of the values.
WakeArgs == {RememberForm(<<"k">>, v) : v \in TypedVals}

\* The length of the text json.dump(mem, f, ensure_ascii=False, indent=2)
\* writes: the braces, and per entry a line with the indent, the quoted key,
\* the colon and blank, the quoted value and the comma or the last newline.
RECURSIVE TextSize(_)
TextSize(m) ==
    IF DOMAIN m = {} THEN 2
    ELSE LET k == CHOOSE k \in DOMAIN m : TRUE
         IN  10 + Len(k) + Len(m[k]) + TextSize(Pop(m, k))

\* What a file holds after the text of m was written from its start: the
\* text of m if the file held no more than that, else the text of m and
\* the end of what it held.
Overwritten(file, m) ==
    CASE file.kind \in {"truncated", "absent"} -> {Json(m)}
      [] file.kind = "json" ->
            IF TextSize(m) >= TextSize(file.map) THEN {Json(m)} ELSE {Corrupt}
      [] OTHER -> {Json(m), Corrupt}

\* What no step of SpecWake changes.
wakeRest == <<animLocals, state, lock, events, due, joinElapsed, hostLocals,
              outHist, trigHist, autoHist, btrace, joinTimedOut, hostHist, animRaised,
              drawVars, timeVars, mcmd, reply, told, dirty, voiceVars>>

\* handle_command, lines 323-325: the command wakeword starts the thread.
StartWake ==
    /\ spc["main"] = "idle" /\ spc["wake"] = "off"
    /\ spc' = [spc EXCEPT !["wake"] = "idle"]
    /\ UNCHANGED <<memory, disk, tmpFile, wakeRest>>

\* cmd_remember, lines 229-236: memory[key] = val, then the call of
\* save_memory.
WRemember(t) ==
    /\ spc[t] = "idle"
    /\ \E arg \in WakeArgs :
         memory' = Store(memory, Strip(BeforeEq(arg)), Strip(AfterEq(arg)))
    /\ spc' = [spc EXCEPT ![t] = "s50"]
    /\ UNCHANGED <<disk, tmpFile, wakeRest>>

\* cmd_forget, lines 253-260: memory.pop(key), then the call of save_memory.
WForget(t) ==
    /\ spc[t] = "idle"
    /\ <<"k">> \in DOMAIN memory
    /\ memory' = Pop(memory, <<"k">>)
    /\ spc' = [spc EXCEPT ![t] = "s50"]
    /\ UNCHANGED <<disk, tmpFile, wakeRest>>

\* save_memory, line 50: open(tmp, "w") creates the file or empties it.
S50(t) ==
    /\ spc[t] = "s50"
    /\ tmpFile' = Truncated
    /\ spc' = [spc EXCEPT ![t] = "s51"]
    /\ UNCHANGED <<memory, disk, wakeRest>>

\* save_memory, line 51: json.dump(mem, f), and the with block closes f: the
\* text of the dict as it is now goes to the file the thread opened.
S51(t) ==
    /\ spc[t] \in {"s51", "s51d", "s51x"}
    /\ CASE spc[t] = "s51" ->
              tmpFile' \in Overwritten(tmpFile, memory) /\ UNCHANGED disk
         [] spc[t] = "s51d" ->
              disk' \in Overwritten(disk, memory) /\ UNCHANGED tmpFile
         [] OTHER -> UNCHANGED <<disk, tmpFile>>
    /\ spc' = [spc EXCEPT ![t] = "s52"]
    /\ UNCHANGED <<memory, wakeRest>>

\* save_memory, line 52: os.replace(tmp, MEMORY_PATH), which raises
\* FileNotFoundError when memory.json.tmp is gone; then the command is over.
S52(t) ==
    /\ spc[t] = "s52"
    /\ IF tmpFile.kind = "absent"
         THEN UNCHANGED <<disk, tmpFile>> /\ spc' = [spc EXCEPT ![t] = "idle"]
         ELSE /\ disk' = tmpFile
              /\ tmpFile' = NoFile
              /\ spc' = [spc EXCEPT ![t] = "idle",
                                    ![Other(t)] = CASE @ = "s51" -> "s51d"
                                                    [] @ = "s51d" -> "s51x"
                                                    [] OTHER -> @]
    /\ UNCHANGED <<memory, wakeRest>>

\* ---------------------------------------------------------------- test.py

\* SpecVoice: wakeword_loop of test.py with listen and handle_command.  wpc
\* is "off" (test.py does not run), "wNN" or "cNN" (before line NN of
\* test.py) or "exited" (after os._exit(0), line 44).
WAKE_WORD == <<"j", "a", "r", "v", "i", "s">>

\* str.lower(), line 25, for the letters A to Z.
UpperCase == <<"A", "B", "C", "D", "E", "F", "G", "H", "I", "J", "K", "L", "M",
              "N", "O", "P", "Q", "R", "S", "T", "U", "V", "W", "X", "Y", "Z">>
LowerCase == <<"a", "b", "c", "d", "e", "f", "g", "h", "i", "j", "k", "l", "m",
              "n", "o", "p", "q", "r", "s", "t", "u", "v", "w", "x", "y", "z">>
Lower(s) ==
    [i \in 1..Len(s) |->
        IF \E j \in 1..Len(UpperCase) : UpperCase[j] = s[i]
          THEN LowerCase[CHOOSE j \in 1..Len(UpperCase) : UpperCase[j] = s[i]]
          ELSE s[i]]

\* sub in s, for two strings (lines 38, 40, 42, 53).
Contains(sub, s) ==
    \E i \in 1..(Len(s) - Len(sub) + 1) : SubSeq(s, i, i + Len(sub) - 1) = sub

\* What recognize_google (line 25) returns for what is said.
Utterances ==
    {<<"H", "e", "y", " ", "J", "a", "r", "v", "i", "s">>,
     <<"j", "a", "r", "v", "i", "s", " ", "s", "t", "o", "p">>,
     <<"S", "t", "o", "p">>,
     <<"e", "x", "i", "t">>,
     <<"q", "u", "i", "t">>,
     <<"t", "i", "m", "e">>,
     <<"s", "t", "o", "p", " ", "t", "i", "m", "e">>,
     <<"e", "x", "i", "t", " ", "u", "p", "d", "a", "t", "e">>,
     <<"h", "e", "l", "l", "o">>}

\* listen, lines 20-34: the text heard in lower case, or "" after one of
\* the three exceptions it catches; after RequestError it speaks first.
ListenOutcomes == {"heard", "WaitTimeoutError", "UnknownValueError", "RequestError"}
listen(outcome, utterance) ==
    [outcome |-> outcome,
     text |-> IF outcome = "heard" THEN Lower(utterance) ELSE <<>>]
ListenSays(outcome) == IF outcome = "RequestError" THEN <<"Network error">> ELSE said
NotHeard == [outcome |-> "none", text |-> <<>>]

\* What no step of test.py changes.
voiceRest == <<animLocals, state, lock, events, due, joinElapsed, hostLocals,
               outHist, trigHist, autoHist, btrace, joinTimedOut, hostHist, animRaised,
               drawVars, timeVars, memory, disk, tmpFile, mcmd, reply, told, dirty, spc>>

\* test.py is not running.
NoVoice ==
    /\ wpc = "off" /\ text = <<>> /\ command = <<>> /\ said = <<>>
    /\ heard = <<NotHeard, NotHeard>>

\* wakeword_loop, line 50.
W50 ==
    /\ wpc = "w50"
    /\ said' = <<"Say ">> \o WAKE_WORD \o <<" to activate me">>
    /\ wpc' = "w52"
    /\ UNCHANGED <<text, command, heard, voiceRest>>

\* wakeword_loop, line 52: text = listen().
W52 ==
    /\ wpc = "w52"
    /\ \E o \in ListenOutcomes, u \in Utterances :
         /\ text' = listen(o, u).text
         /\ heard' = <<heard[2], listen(o, u)>>
         /\ said' = ListenSays(o)
    /\ wpc' = "w53"
    /\ UNCHANGED <<command, voiceRest>>

\* wakeword_loop, lines 53-54: if WAKE_WORD in text: speak(...).
W53AnyText ==
    /\ wpc = "w53"
    /\ wpc' = "w55" /\ said' = <<"Yes, I'm listening">>
    /\ UNCHANGED <<text, command, heard, voiceRest>>
W53 ==
    /\ wpc = "w53"
    /\ IF Contains(WAKE_WORD, text)
         THEN wpc' = "w55" /\ said' = <<"Yes, I'm listening">>
         ELSE wpc' = "w52" /\ UNCHANGED said
    /\ UNCHANGED <<text, command, heard, voiceRest>>

\* wakeword_loop, line 55: command = listen().
W55 ==
    /\ wpc = "w55"
    /\ \E o \in ListenOutcomes, u \in Utterances :
         /\ command' = listen(o, u).text
         /\ heard' = <<heard[2], listen(o, u)>>
         /\ said' = ListenSays(o)
    /\ wpc' = "w56"
    /\ UNCHANGED <<text, voiceRest>>

\* wakeword_loop, lines 56-57: if command: handle_command(command).
W56 ==
    /\ wpc = "w56"
    /\ wpc' = IF command # <<>> THEN "c38" ELSE "w52"
    /\ UNCHANGED <<text, command, said, heard, voiceRest>>

\* handle_command, lines 37-46, called with command; os._exit(0) ends the
\* process.
C38 ==
    /\ wpc = "c38"
    /\ IF Contains(<<"t", "i", "m", "e">>, command)
         THEN said' = <<"The time is <%I:%M %p>">> /\ wpc' = "w52"
       ELSE IF Contains(<<"d", "a", "t", "e">>, command)
         THEN said' = <<"Today's date is <%A, %d %B %Y>">> /\ wpc' = "w52"
       ELSE IF \/ Contains(<<"s", "t", "o", "p">>, command)
               \/ Contains(<<"e", "x", "i", "t">>, command)
               \/ Contains(<<"q", "u", "i", "t">>, command)
         THEN said' = <<"Goodbye">> /\ wpc' = "exited"
       ELSE said' = <<"I heard ">> \o command /\ wpc' = "w52"
    /\ UNCHANGED <<text, command, heard, voiceRest>>

\* ---------------------------------------------------------------- specifications

\* After EyeAnimator.__init__ (module line 207) and before line 379.
InitProgram ==
    /\ apc = "a169" /\ bphase = "none" /\ bi = 0 /\ bkind = "none"
    /\ art = <<>> /\ nowGE = FALSE
    /\ state = FULLY_OPEN
    /\ lock = "free"
    /\ stopEv = FALSE /\ blinkEv = FALSE /\ autoEv = TRUE
    /\ due = FALSE /\ joinElapsed = 0
    /\ hpc = "h379" /\ line = "" /\ res = "" /\ hostOut = <<>>
    /\ interleaved = FALSE /\ unlockedWrite = FALSE
    /\ owed = 0 /\ pendingCalls = 0 /\ consumedCalls = 0 /\ unserved = FALSE
    /\ offAtCheck = FALSE /\ offBegins = 0
    /\ btrace = <<>>
    /\ joinTimedOut = FALSE
    /\ endedBy = "none" /\ stopDone = FALSE /\ saved = FALSE
    /\ animRaised = FALSE
    /\ tpc = "t169" /\ clock = 0 /\ deadline = NoTime /\ tnow = NoTime
    /\ blinksDone = 0 /\ autoWasOff = FALSE /\ lastAuto = NoTime

\* No command was dispatched: no file memory.json, an empty dict.
InitStore ==
    /\ disk = NoFile /\ memory = load_memory(disk) /\ tmpFile = NoFile
    /\ mcmd = [cmd |-> "none", arg |-> <<>>] /\ reply = NoReply
    /\ told = [k \in TypedKeys |-> Nothing]
    /\ dirty = FALSE
    /\ spc = [t \in Threads |-> "idle"]

Init == InitProgram /\ drawLevel = 0 /\ drawArt = <<>> /\ InitStore /\ NoVoice

Next == AnimStep \/ HostStep \/ DeadlinePasses \/ TimePasses

Spec == Init /\ [][Next]_vars

\* The animation thread is scheduled fairly and is granted the lock when it
\* is free often enough; the host leaves its with-lock blocks.
SpecFair == Spec /\ SF_vars(AnimStep) /\ WF_vars(HostLockedStep)

\* Time passes and the host thread runs; nothing is assumed of the
\* animation thread.
SpecJoin == Spec /\ WF_vars(TimePasses) /\ WF_vars(StopStep)

\* The session goes on: the host is granted the lock when it waits for it
\* and runs between its with blocks; the animation thread runs.
SpecSession ==
    Spec /\ SF_vars(H342 \/ H369) /\ WF_vars(HostLockedStep \/ H363) /\ WF_vars(AnimStep)

\* The animation thread runs whenever it can; nothing is assumed of the host,
\* which may wait for input for ever.
SpecIdle == Spec /\ WF_vars(AnimStep)

\* The program with failing terminal writes and Ctrl+C at any point of the
\* while loop.
NextFail == Next \/ AnimWriteRaises \/ HostGuardedRaises \/ HostInterrupted
SpecFail == Init /\ [][NextFail]_vars

\* The animation thread with the host loop of grokagent.py.
NextGrok == AnimStep \/ GrokHostStep \/ DeadlinePasses \/ TimePasses
SpecGrok == Init /\ [][NextGrok]_vars

\* The animation thread with time, and calls of its public operations.
NextTimed == TimedStep \/ CallTriggerBlink \/ CallSetAuto \/ CallStop
SpecTimed == Init /\ [][NextTimed]_vars

\* The memory store after load_memory (line 56), and its commands.
InitMemory ==
    /\ InitProgram /\ drawLevel = 0 /\ drawArt = <<>> /\ NoVoice
    /\ disk \in InitialFiles /\ memory = load_memory(disk) /\ tmpFile = NoFile
    /\ mcmd = [cmd |-> "none", arg |-> <<>>] /\ reply = NoReply
    /\ told = [k \in TypedKeys |-> Nothing]
    /\ dirty = (disk.kind = "corrupt")
    /\ spc = [t \in Threads |-> "idle"]
NextMemory == DoRemember \/ DoRecall \/ DoList \/ DoForget
SpecMemory == InitMemory /\ [][NextMemory]_vars

\* claudeagent.py after memory = load_memory() (line 54), the main thread
\* between commands and no wake-word thread yet.
InitWake ==
    /\ InitProgram /\ drawLevel = 0 /\ drawArt = <<>> /\ NoVoice
    /\ disk \in {NoFile, Json(EmptyMap)} /\ memory = load_memory(disk) /\ tmpFile = NoFile
    /\ mcmd = [cmd |-> "none", arg |-> <<>>] /\ reply = NoReply
    /\ told = [k \in TypedKeys |-> Nothing]
    /\ dirty = FALSE
    /\ spc = [t \in Threads |-> IF t = "main" THEN "idle" ELSE "off"]
NextWake ==
    \/ StartWake
    \/ \E t \in Threads : WRemember(t) \/ WForget(t) \/ S50(t) \/ S51(t) \/ S52(t)
SpecWake == InitWake /\ [][NextWake]_vars

\* test.py run as a program (lines 60-61): wakeword_loop is called.
InitVoice ==
    /\ InitProgram /\ drawLevel = 0 /\ drawArt = <<>> /\ InitStore
    /\ wpc = "w50" /\ text = <<>> /\ command = <<>> /\ said = <<>>
    /\ heard = <<NotHeard, NotHeard>>
NextVoice == W50 \/ W52 \/ W53 \/ W55 \/ W56 \/ C38
SpecVoice == InitVoice /\ [][NextVoice]_vars

\* draw applied to every level from -MaxLevel / 100 to 2 * MaxLevel / 100
\* (_draw puts no condition on its argument).
InitDraw ==
    /\ InitProgram /\ InitStore /\ NoVoice
    /\ drawLevel \in (0 - MaxLevel)..(2 * MaxLevel) /\ drawArt = <<>>
Render ==
    /\ drawArt = <<>>
    /\ drawArt' = draw(drawLevel)
    /\ UNCHANGED <<animLocals, state, lock, events, due, joinElapsed, hostLocals,
                   outHist, trigHist, autoHist, btrace, joinTimedOut, hostHist, animRaised,
                   drawLevel, timeVars, memVars>>
SpecDraw == InitDraw /\ [][Render]_vars

\* ---------------------------------------------------------------- properties

\* The animation thread writes to the terminal (lines 184 and 185).
AnimWrites ==
    \/ apc = "a184" /\ apc' = "a185"
    \/ apc = "a185" /\ apc' = "a186"
\* stop() has returned to main_loop.
StopReturned == hpc \in {"h374", "h375", "hdone"}
\* The host waits for the lock.
HostWaits == hpc \in {"h342", "h364", "h369"}

\* C1: the animation thread is never inside its redraw section (lines
\* 183-186) while the host is inside one of its with-lock sections (prompt,
\* response, screen clear), and no guarded write ever fell between the first
\* and the last write of the other thread's output unit.
C1_MutualExclusion ==
    /\ ~(apc \in AnimRedraw /\ hpc \in HostGuarded)
    /\ ~interleaved
C1_Witness == apc \in AnimMidUnit /\ HostWaits

\* C2 as claimed: once stop() has returned, the animation thread writes
\* nothing more, also when the join timed out.
C2_Original == [][StopReturned => ~AnimWrites]_vars
\* C2 amended: once stop() has returned because the animation thread ended
\* (the join did not time out), the animation thread writes nothing more.
C2_NoRedrawAfterJoined == [][(StopReturned /\ ~joinTimedOut) => ~AnimWrites]_vars
C2_Witness == hpc = "h374" /\ ~joinTimedOut /\ joinElapsed > 0 /\ apc = "done"

\* The call of _do_blink of the auto-blink branch (line 175).
AutoBlinkBegins == apc = "a175" /\ apc' = "b_acq"
\* C3 as claimed: while _auto is clear (set_auto(False) has returned and
\* set_auto(True) was not called since) no autonomous blink begins.
C3_Original == [][~autoEv => ~AutoBlinkBegins]_vars
\* C3 amended: an autonomous blink is chosen only by a check at line 173 that
\* found _auto set, so a check made after set_auto(False) returned begins
\* none even when the deadline was reached; at most one autonomous blink, the
\* one whose check came before, begins while _auto is clear.
C3_GateAtCheck ==
    /\ (apc = "a175" \/ bkind = "auto") => ~offAtCheck
    /\ offBegins <= 1
C3_Witness == apc = "a178" /\ nowGE /\ ~autoEv /\ bkind = "none"

\* C4: trigger_blink calls made while the flag is set add nothing: the
\* forced blinks still to come are one for the flag if it is set, plus one
\* if the loop stands between its clear() and its call of _do_blink; the
\* calls are counted as pending exactly while the flag is set.
C4_Coalescing ==
    /\ owed = (IF blinkEv THEN 1 ELSE 0) + (IF apc = "a180" THEN 1 ELSE 0)
    /\ blinkEv <=> pendingCalls > 0
C4_Witness == bkind = "forced" /\ consumedCalls >= 2 /\ owed = 0 /\ ~blinkEv

\* C5: under SpecFair, after a trigger_blink call a forced blink sequence
\* begins eventually, unless stop is requested.
C5_AtLeastOnce == unserved ~> (~unserved \/ stopEv)
C5_Witness == unserved /\ ~autoEv /\ ~stopEv /\ apc = "a179"

\* C6: a _do_blink that starts at 1.0 assigns 0.8, 0.5, 0.2, 0.0, then 0.0,
\* 0.2, 0.5, 0.8, then 1.0, in this order; when it has returned openness is
\* 1.0 and a value below 0.33 was assigned between the first and the last.
C6_RoundTrip ==
    LET profile == <<100, 80, 50, 20, 0, 0, 20, 50, 80, 100>>
    IN  (btrace # <<>> /\ btrace[1] = 100) =>
          /\ Len(btrace) <= Len(profile)
          /\ \A i \in 1..Len(btrace) : btrace[i] = profile[i]
          /\ state = btrace[Len(btrace)]
          /\ ~InBlink =>
               /\ btrace = profile
               /\ state = 100
               /\ \E i \in 3..9 : btrace[i] < 33
C6_Witness == ~InBlink /\ Len(btrace) = 10 /\ btrace[1] = 100 /\ state = 100

\* C7: openness is always one of 0.0, 0.2, 0.5, 0.8, 1.0.
C7_Range == state \in {0, 20, 50, 80, 100}
C7_Witness == state = 0 /\ bphase = "opening" /\ stopEv

\* C8: the animation thread holds the lock wherever it is about to read
\* (line 183) or write (lines 195, 202, 205) openness, and openness changes
\* only in such a step of the animation thread.
C8_UnderLock ==
    /\ [](apc \in {"b_set", "a183"} => lock = "anim")
    /\ [][state' # state => (apc = "b_set" /\ lock = "anim")]_vars
C8_Witness == apc = "b_set" /\ lock = "anim" /\ HostWaits

\* C9: under SpecDraw, draw selects the open art for levels >= 0.66, the half
\* art for 0.33 <= level < 0.66 and the closed art below 0.33; 1.0 and 0.8
\* are open, 0.5 is half, 0.2 and 0.0 are closed.
C9_Tiers ==
    /\ drawArt # <<>> =>
         /\ drawLevel >= 66 => TierOf(drawArt) = "EYE_OPEN"
         /\ (33 <= drawLevel /\ drawLevel < 66) => TierOf(drawArt) = "EYE_HALF"
         /\ drawLevel < 33 => TierOf(drawArt) = "EYE_CLOSED"
    /\ TierOf(draw(100)) = "EYE_OPEN" /\ TierOf(draw(80)) = "EYE_OPEN"
    /\ TierOf(draw(50)) = "EYE_HALF"
    /\ TierOf(draw(20)) = "EYE_CLOSED" /\ TierOf(draw(0)) = "EYE_CLOSED"
C9_Witness == drawLevel = 66 /\ drawArt # <<>> /\ TierOf(drawArt) = "EYE_OPEN"

\* C10: under SpecJoin (time passes, the host runs, the animation thread may
\* never run again) a call of stop() returns, and stop() does not hold the
\* lock at any point.
C10_StopReturns ==
    /\ (hpc = "h142") ~> StopReturned
    /\ [](hpc \in {"h142", "h143"} => lock # "host")
C10_Witness == StopReturned /\ joinTimedOut /\ InBlink /\ lock = "anim"

\* C11: under SpecFail, the lock is held by a thread exactly while that
\* thread is inside one of its with-lock blocks, also after a write inside a
\* block has raised, so no block that was left (normally or by an exception)
\* leaves the lock held and blocks the other thread.
C11_ScopedRelease ==
    /\ lock = "host" <=> hpc \in HostGuarded
    /\ lock = "anim" <=> apc \in AnimRedraw \cup {"b_set"}
C11_Witness == animRaised /\ hpc = "h343" /\ lock = "host"

\* The host prints the blank line of line 350 or line 353.
HostWritesBlank == hpc \in {"h350", "h353"} /\ hpc' # hpc
\* C12 as claimed: while the animation thread runs, the host prints the
\* blank line after end of input or an interrupted read holding the lock.
C12_AllWritesLocked == [][(HostWritesBlank /\ apc # "done") => lock = "host"]_vars

\* C14: under SpecSession, an Exception raised by handle_command becomes the
\* text of res, which is printed holding the lock, after which the next
\* prompt is printed and the next line read; the raising call leaves the
\* animation thread and the stop flag alone; and the while loop is left only
\* by end of input or by exit.
C14_ErrorContained ==
    /\ []((res = ErrorText /\ hpc \in {"h370", "h370n"}) => lock = "host")
    /\ [][(res' = ErrorText /\ res # ErrorText) =>
            (hpc = "h357" /\ hpc' = "h363" /\ ~stopEv' /\ apc' = apc /\ endedBy' = "none")]_vars
    /\ (res = ErrorText /\ hpc = "h363") ~> (hpc = "h370" /\ res = ErrorText)
    /\ (res = ErrorText /\ hpc = "h370") ~> hpc = "h347"
    /\ [](endedBy \in {"none", "eof", "exit"})
C14_Witness == res = ErrorText /\ hpc = "h370n" /\ InBlink

\* C15: under SpecFail, however the while loop is left (end of input, exit,
\* an exception), control goes into stop(); save_memory is performed only
\* after stop() was called and has returned; and main_loop never ends, after
\* end of input as after exit, without both.
C15_ShutdownOrder ==
    /\ saved => stopDone
    /\ stopDone => stopEv
    /\ (endedBy # "none" /\ ~stopDone) => hpc \in {"h142", "h143"}
    /\ endedBy = "none" => (~stopEv /\ ~saved)
    /\ hpc = "hdone" => (stopDone /\ saved)
C15_Witness == saved /\ endedBy = "exception" /\ joinTimedOut

\* The longest wait for the first complete blink: the longest initial delay,
\* the tick in which the deadline is seen, the longest blink.
FirstBlinkBound == InitialDelayMax + EYES_REFRESH + BlinkDuration(PAUSE_JITTER_MAX)
\* Auto-blink was enabled all along and no stop was requested.
AutoAllAlong == ~autoWasOff /\ ~stopEv
\* The first call of _do_blink has just returned.
FirstBlinkEnds == blinksDone = 1 /\ tpc \in {"t176", "t180r"}

\* C13 as claimed: under SpecTimed, with auto-blink enabled all along and no
\* stop, the first complete blink has ended before 2.5 s have passed.
C13_Original ==
    AutoAllAlong =>
      /\ blinksDone = 0 => clock < InitialDelayMax
      /\ FirstBlinkEnds => clock < InitialDelayMax
\* C13 amended: the same with 2.5 s + 0.12 s + 0.52 s = 3.14 s for 2.5 s.
C13_BlinkWithinBound ==
    AutoAllAlong =>
      /\ blinksDone = 0 => clock < FirstBlinkBound
      /\ FirstBlinkEnds => clock < FirstBlinkBound
C13_Witness ==
    AutoAllAlong /\ FirstBlinkEnds /\ tpc = "t176" /\ clock >= InitialDelayMax + PAUSE_BASE

\* C17: under SpecTimed, last_auto_blink changes only in the steps of lines
\* 169 and 176 (never in a forced blink, nor in trigger_blink, set_auto or
\* stop), and line 176 is reached only from the auto-blink branch.
C17_DeadlineUntouched ==
    /\ [][deadline' # deadline => tpc \in {"t169", "t176"}]_vars
    /\ [][tpc' = "t176" => tpc \in {"t175", "t176"}]_vars
    /\ [][(tpc \in {"t178", "t180", "t180r"}) => (deadline' = deadline)]_vars
C17_Witness == tpc = "t180r" /\ deadline > clock /\ tnow < clock

\* A call of _do_blink has returned in this iteration of _run.
BlinkRanThisTick == ~InBlink /\ Len(btrace) = 10
\* Line 178 finds the flag set and the forced-blink branch is entered.
ForcedBranchTaken == apc = "a178" /\ apc' = "a179"

\* C16 as claimed: the forced-blink branch is entered only in iterations
\* whose auto-blink branch did not run.
C16_Original == [][ForcedBranchTaken => ~BlinkRanThisTick]_vars
\* C16 amended: line 178 decides on the flag alone, whether or not the
\* auto-blink branch ran before it in the iteration; the auto-blink branch
\* runs before any other blink of the iteration and returns to line 176; the
\* forced blink returns to the redraw.  So an iteration runs at most one
\* blink of each kind, the autonomous one first.
C16_BothBranchesPerTick ==
    /\ [][(apc = "a178" /\ apc' # apc) => (apc' = IF blinkEv THEN "a179" ELSE "a182")]_vars
    /\ [][AutoBlinkBegins => btrace = <<>>]_vars
    /\ [][(bkind = "auto" /\ bkind' = "none") => apc' = "a176"]_vars
    /\ [][(bkind = "forced" /\ bkind' = "none") => apc' = "a182"]_vars
C16_Witness == apc = "a179" /\ BlinkRanThisTick

\* C18: under SpecFair, once _stop is set the loop ends unless the process
\* ends first; the ended loop stays ended, writes nothing and leaves
\* openness alone; the loop ends only at its test of line 170, so never
\* inside a blink or a redraw, and an iteration that finds _stop set at line
\* 170 goes nowhere else; openness is 1.0 when the loop has ended.
C18_CooperativeStop ==
    /\ stopEv ~> (apc = "done" \/ ~ProcessAlive)
    /\ [][apc = "done" => (apc' = "done" /\ state' = state /\ ~AnimWrites)]_vars
    /\ [][(apc' = "done" /\ apc # "done") => (apc = "a170" /\ stopEv)]_vars
    /\ [][(apc = "a170" /\ stopEv /\ apc' # apc) => apc' = "done"]_vars
    /\ [](apc = "done" => state = FULLY_OPEN)
C18_Witness ==
    /\ apc = "done" /\ hpc = "h374" /\ ~joinTimedOut
    /\ joinElapsed >= 2 * EYES_REFRESH /\ joinElapsed < JOIN_TIMEOUT

\* C19: inside _do_blink the animation thread holds the lock only where it
\* stands before the assignment of openness, whose step releases it; during
\* the step delays and the closed pause the lock is not the thread's.
C19_LockFreeInBlink ==
    /\ []((InBlink /\ lock = "anim") => apc = "b_set")
    /\ [](apc \in {"b_sleep", "b_pause"} => lock # "anim")
    /\ [][(apc = "b_set" /\ apc' # apc) => lock' = "free"]_vars
C19_Witness == apc = "b_pause" /\ hpc = "h370n" /\ lock = "host"

HostReads == hpc = "h347"
\* The redraw of this iteration is complete (line 186 has released the lock).
RedrawComplete == apc = "a187"

AutoBlinkDue == tpc = "t175"

\* C22: under SpecTimed, no autonomous blink begins earlier than 0.5 s after
\* the start of the loop; an autonomous blink begins no earlier than 2.0 s
\* after the now of the iteration in which the one before it began; line
\* 176 counts from that now, which is earlier than the end of the blink,
\* and the deadline it sets lies 2.0 s to 5.5 s after it.
C22_ScheduleBounds ==
    /\ AutoBlinkDue => (clock >= InitialDelayMin /\ clock >= deadline /\ tnow = clock)
    /\ (AutoBlinkDue /\ lastAuto # NoTime) => clock >= lastAuto + IntervalMin
    /\ tpc = "t176" => (lastAuto = tnow /\ tnow < clock)
    /\ (lastAuto # NoTime /\ tpc # "t176") =>
          (deadline >= lastAuto + IntervalMin /\ deadline <= lastAuto + IntervalMax)
C22_Witness ==
    AutoBlinkDue /\ lastAuto # NoTime /\ clock < lastAuto + IntervalMin + EYES_REFRESH

\* The host performs the call of handle_command (line 357) for a line whose
\* command calls the operation, or a step of stop().
CallsTriggerBlink == hpc = "h357" /\ hpc' # hpc /\ Cmd(line) = "blink"
CallsSetAuto(enabled) ==
    /\ hpc = "h357" /\ hpc' # hpc
    /\ Cmd(line) = "blink_auto" /\ Arg(line) = (IF enabled THEN "on" ELSE "off")
CallsStop == hpc \in {"h142", "h143"} /\ hpc' # hpc
\* What the three operations have no part in: openness, the lock, whether
\* the deadline is reached, and where the animation thread stands (so no
\* blink begins or advances in their steps).
animatorRest == <<state, lock, due, animLocals, btrace>>

\* C23: trigger_blink only sets _blink, set_auto only sets or clears _auto,
\* stop only sets _stop (and then waits in join); each leaves the other two
\* flags, openness, the lock, the auto-blink schedule and the position of
\* the animation thread as they are, and none waits for the lock: each can
\* be performed whoever holds the lock.
C23_OwnFlagOnly ==
    /\ [][CallsTriggerBlink => (blinkEv' /\ UNCHANGED <<stopEv, autoEv, animatorRest>>)]_vars
    /\ [][\A enabled \in BOOLEAN : CallsSetAuto(enabled) =>
            (autoEv' = enabled /\ UNCHANGED <<stopEv, blinkEv, animatorRest>>)]_vars
    /\ [][CallsStop => (stopEv' /\ UNCHANGED <<blinkEv, autoEv, animatorRest>>)]_vars
    /\ [][(stopEv' # stopEv \/ (blinkEv' /\ ~blinkEv) \/ autoEv' # autoEv) =>
            (CallsStop \/ CallsTriggerBlink \/ \E enabled \in BOOLEAN : CallsSetAuto(enabled))]_vars
    /\ [](hpc = "h357" => ENABLED H357)
    /\ [](hpc = "h142" => ENABLED H142)
C23_Witness ==
    /\ hpc = "h363" /\ res = "Auto-blink: OFF" /\ ~autoEv
    /\ bkind = "none" /\ lock = "anim" /\ apc = "a184" /\ btrace = <<>>

\* The host leaves line 363 / 368 (res holds what handle_command returned).
HostDecides == hpc = "h363" /\ hpc' # hpc
\* The host leaves the with block of the screen clear or of the response.
HostHandled == hpc \in {"h366", "h370n"} /\ hpc' # hpc

\* C24: for None the host goes to the with block of lines 364-366, where,
\* holding the lock, it writes the screen-clear sequence and nothing else;
\* for "" it writes nothing and goes to the next prompt; for any other text
\* it goes to the with block of lines 369-370, where, holding the lock, it
\* writes that text; each of the three ends at line 342, from where the
\* host only goes on by taking the lock and writing the prompt.
C24_ResultHandling ==
    /\ [][HostDecides =>
            /\ UNCHANGED <<res, hostOut, outHist, lock>>
            /\ hpc' = CASE res = None -> "h364" [] res = "" -> "h342" [] OTHER -> "h369"]_vars
    /\ [](hpc \in {"h364", "h365", "h366"} => res = None)
    /\ [](hpc \in {"h369", "h370", "h370n"} => res \notin {None, ""})
    /\ [](hpc \in {"h365", "h366", "h370", "h370n"} => lock = "host")
    /\ [](hpc = "h366" => hostOut = <<SCREEN_CLEAR>>)
    /\ [](hpc = "h370n" => hostOut = <<res>>)
    /\ [][HostHandled => hpc' = "h342"]_vars
    /\ [][(hpc = "h342" /\ hpc' # hpc) => (hpc' = "h343" /\ lock' = "host")]_vars
    /\ [](hpc = "h344" => (hostOut = <<PROMPT>> /\ lock = "host"))
C24_Witness ==
    hpc = "h370n" /\ hostOut = <<"Auto-blink: ON">> /\ lock = "host" /\ apc = "a182"

\* The loop makes the test of line 173 (the loop test of line 170 let it in).
AutoCheck == tpc = "t170" /\ tpc' # tpc /\ ~stopEv
\* The longest time from one test of line 173 to the next: a forced blink,
\* the redraw and the sleep of line 187.
LongestTick == BlinkDuration(PAUSE_JITTER_MAX) + EYES_REFRESH

\* C25 as claimed: under SpecTimed, no step taken while _auto is clear
\* changes last_auto_blink once line 169 has set it.
C25_Original == [][(~autoEv /\ ~autoEv' /\ tpc # "t169") => deadline' = deadline]_vars
\* C25 amended: a test of line 173 that finds _auto clear begins no blink
\* and leaves last_auto_blink as it is, as does every call of set_auto; a
\* test that finds _auto set and the deadline reached, however long ago,
\* begins the autonomous blink at once; and last_auto_blink changes only at
\* line 176, after that blink, to a time 2.0 s to 5.5 s after the now of
\* that test.
C25_NoFreshInterval ==
    /\ [][(AutoCheck /\ ~autoEv) => (deadline' = deadline /\ tpc' = "t178")]_vars
    /\ [][(AutoCheck /\ autoEv /\ clock >= deadline) => (tpc' = "t175" /\ tnow' = clock)]_vars
    /\ [][deadline' # deadline =>
            /\ tpc \in {"t169", "t176"}
            /\ tpc = "t176" => (deadline' >= tnow + IntervalMin /\ deadline' <= tnow + IntervalMax)]_vars
    /\ [][tpc' = "t176" => tpc \in {"t175", "t176"}]_vars
    /\ [][tpc' = "t175" => (tpc = "t175" \/ (AutoCheck /\ autoEv /\ clock >= deadline))]_vars
C25_Witness ==
    AutoBlinkDue /\ autoWasOff /\ autoEv /\ clock > deadline + LongestTick

\* The flag is set while a blink sequence is under way: trigger_blink was
\* called after the clear that preceded the sequence.
RequestDuringBlink == InBlink /\ blinkEv

\* C26: the flag is cleared only at line 179, and line 180 is reached only
\* from there, so the clear precedes the sequence; the flag set during a
\* sequence stays set and stands for one forced blink to come; and under
\* SpecFair the call of line 180 is reached again, in a later iteration,
\* unless stop is requested.
C26_NotLost ==
    /\ [][(blinkEv /\ ~blinkEv') => (apc = "a179" /\ apc' = "a180")]_vars
    /\ [][(apc' = "a180" /\ apc # "a180") => apc = "a179"]_vars
    /\ [][(bkind' = "forced" /\ bkind # "forced") => apc = "a180"]_vars
    /\ [](RequestDuringBlink => owed = 1)
    /\ RequestDuringBlink ~> (apc = "a180" \/ stopEv)
C26_Witness ==
    /\ bkind = "forced" /\ apc = "b_pause" /\ blinkEv /\ pendingCalls = 1
    /\ hpc = "h363" /\ res = "(blinked)" /\ ~stopEv

\* The host is inside a call of a collaborator that can block: readline
\* (line 347), handle_command (line 357), speak (grokagent.py line 395).
HostInCollaborator == hpc \in {"h347", "h357", "g395"}

\* C27 as claimed: under SpecGrok, the host holds the lock only where it
\* writes to the terminal and never inside a call of a collaborator; no
\* thread asks for the lock while it holds it; and the animation thread
\* never waits for the lock while the host is inside speak.
C27_LockOnlyForWrites ==
    /\ lock = "host" => hpc \in HostGuarded
    /\ HostInCollaborator => lock # "host"
    /\ HostWaits => lock # "host"
    /\ apc \in {"b_acq", "a182"} => lock # "anim"
    /\ ~(hpc = "g395" /\ apc \in {"b_acq", "a182"})

\* The replies of the rejected forms.
Rejections == {UseRemember, UseRecall, UseForget, NoMemoryFor}

\* C28 as claimed: under SpecMemory, when every change of memory was saved
\* the file holds the mapping of memory; a recall of a key typed in a
\* completed remember (no remember or forget of that key since) reports the
\* value typed; a recall of a key removed by a forget (no remember of that
\* key since) reports it absent; and a rejected command changes neither
\* memory nor the file.
C28_StoreConsistent ==
    /\ [](~dirty => (disk.kind \in {"json", "absent"} /\ load_memory(disk) = memory))
    /\ []((mcmd.cmd = "recall" /\ told[mcmd.arg] \notin {Nothing, Forgotten}) =>
            (reply.text = Found /\ reply.val = told[mcmd.arg]))
    /\ []((mcmd.cmd = "recall" /\ told[mcmd.arg] = Forgotten) =>
            reply.text = NotInMemory)
    /\ [][reply'.text \in Rejections => UNCHANGED <<memory, disk>>]_vars

\* C29 as claimed: under SpecWake, at most one thread at a time is between
\* opening memory.json.tmp and replacing memory.json, and memory.json, once
\* it exists, always holds the complete text of a mapping.
C29_SavesDoNotOverlap ==
    /\ ~(spc["main"] \in InSave /\ spc["wake"] \in InSave)
    /\ disk.kind \in {"absent", "json"}

\* C30: under SpecVoice, handle_command runs only with a command that is not
\* empty and is the text heard by the call of listen just made, the call of
\* listen before it having returned a text with the wake word; a text
\* without the wake word and a follow-up that is empty or failed lead back
\* to line 52 with nothing dispatched; and the process has exited only from
\* handle_command, with a command that contains stop, exit or quit and
\* neither time nor date.
Dispatched ==
    /\ command # <<>>
    /\ heard[2] = [outcome |-> "heard", text |-> command]
    /\ Contains(WAKE_WORD, heard[1].text)
EndsLoop(c) ==
    /\ \/ Contains(<<"s", "t", "o", "p">>, c)
       \/ Contains(<<"e", "x", "i", "t">>, c)
       \/ Contains(<<"q", "u", "i", "t">>, c)
    /\ ~Contains(<<"t", "i", "m", "e">>, c)
    /\ ~Contains(<<"d", "a", "t", "e">>, c)
GatedStep ==
    /\ (wpc = "w53" /\ ~Contains(WAKE_WORD, text)) => wpc' = "w52"
    /\ (wpc = "w56" /\ (heard[2].outcome # "heard" \/ heard[2].text = <<>>)) => wpc' = "w52"
    /\ wpc' = "c38" => wpc = "w56"
    /\ wpc' = "exited" => wpc = "c38"
    /\ (wpc = "c38" /\ ~EndsLoop(command)) => wpc' = "w52"
C30_WakeWordGating ==
    /\ [](wpc \in {"c38", "exited"} => Dispatched)
    /\ [](wpc = "exited" => EndsLoop(command))
    /\ [][GatedStep]_vars
C30_Witness ==
    /\ wpc = "exited" /\ Dispatched
    /\ heard[1].text # WAKE_WORD

====
